---- MODULE Spec2Model ----
(***************************************************************************)
(* Model of the panel state machine of the `walked` terminal file browser  *)
(* (src/src/window.rs, Panel::process_key_event) over an explicit model of *)
(* the filesystem primitives it calls.                                     *)
(*                                                                         *)
(* A file name is a sequence of one-character strings, a path is the       *)
(* sequence of its components below the root "/".  The filesystem maps     *)
(* every existing path to a node; a directory node carries the order in    *)
(* which read_dir enumerates its children.                                 *)
(***************************************************************************)
EXTENDS Integers, Sequences, FiniteSets, TLC

VARIABLES
    fs,                   \* the filesystem: path -> node
    working_directory,    \* Panel.working_directory
    entries,              \* Panel.entries
    mode,                 \* Panel.mode
    selected,             \* Panel.table_state.selected(): <<>> is None, <<i>> is Some(i)
    cursor_offset,        \* Panel.cursor_offset
    current_entry_length, \* Panel.current_entry_length
    edit_buffer,          \* Panel.edit_buffer
    selection_start,      \* Panel.selection_start: <<>> is None, <<i>> is Some(i)
    errors,               \* Panel.errors
    clipboard,            \* Window.clipboard
    result,               \* the PanelFrameData returned for the last key event
    last,                 \* the branch of process_key_event the last key event took
    panicked,             \* the process was aborted by a panic (index out of bounds)
    nkeys,                \* number of key events handled so far
    fault,                \* the filesystem calls the environment failed in the last event
    typing,               \* the name typed since the last new-file action, if any
    session,              \* what the user and the environment do in this run
    panels,               \* Window.panels: the rows of the grid, each a row of panels
    panel_focus_i,        \* Window.panel_focus_i: the focused row
    panel_focus_j,        \* Window.panel_focus_j: the focused column
    key_event,            \* the binding of the action the configuration file is read for
    toml                  \* the value the configuration file gave for that action

vars == <<fs, working_directory, entries, mode, selected, cursor_offset,
          current_entry_length, edit_buffer, selection_start, errors,
          clipboard, result, last, panicked, nkeys, fault, typing, session,
          panels, panel_focus_i, panel_focus_j, key_event, toml>>

(***************************************************************************)
(* Bounds of the model.                                                    *)
(***************************************************************************)
\* key events handled in a run in which every key is at hand
MaxKeys == 2
\* longest edit buffer a character may still be typed into
MaxBuf == 2
\* filesystem calls of one key event that the environment makes fail
MaxFaults == 1
\* longest path, in components, the filesystem accepts (PATH_MAX)
MaxDepth == 4
\* window-level key events of one run of the window
MaxWindowOps == 4

(***************************************************************************)
(* Options, strings and paths.                                             *)
(***************************************************************************)
None == <<>>
Some(i) == <<i>>
IsSome(o) == o # <<>>
Unwrap(o) == o[1]

Min(a, b) == IF a < b THEN a ELSE b
Max(a, b) == IF a > b THEN a ELSE b

\* usize::saturating_sub
SatSub(a, b) == IF a > b THEN a - b ELSE 0

NEWFILE == <<"N", "E", "W", "F", "I", "L", "E">>
NEWDIR == <<"N", "E", "W", "D", "I", "R">>
\* the suffix new_path appends
Suffix == <<".", "1">>

disallowed_chars == {"\\", "/", ":", "*", "?", "\"", "<", ">", "|"}

\* a check that looks at the first character only
ContainsAtStart(s, chars) == s # <<>> /\ s[1] \in chars

\* String::contains(&[char]): some character of the string is in the set
Contains(s, chars) == \E i \in 1..Len(s) : s[i] \in chars

\* Path::to_str: the components, each preceded by the separator
RECURSIVE ToStr(_)
ToStr(p) ==
    IF Len(p) = 0 THEN <<"/">>
    ELSE IF Len(p) = 1 THEN <<"/">> \o p[1]
    ELSE ToStr(SubSeq(p, 1, Len(p) - 1)) \o <<"/">> \o p[Len(p)]

\* PathBuf::from_str: split at the separators, empty components dropped
RECURSIVE SplitFrom(_, _, _)
SplitFrom(s, i, cur) ==
    IF i > Len(s)
    THEN IF cur = <<>> THEN <<>> ELSE <<cur>>
    ELSE IF s[i] = "/"
         THEN (IF cur = <<>> THEN <<>> ELSE <<cur>>) \o SplitFrom(s, i + 1, <<>>)
         ELSE SplitFrom(s, i + 1, Append(cur, s[i]))
FromStr(s) == SplitFrom(s, 1, <<>>)

\* Path::parent: None for the root
Parent(p) == IF Len(p) = 0 THEN None ELSE Some(SubSeq(p, 1, Len(p) - 1))
\* Path::file_name: None for the root
FileName(p) == IF Len(p) = 0 THEN None ELSE Some(p[Len(p)])
\* Path::join / PathBuf::push: an argument that starts with the separator
\* replaces the path, otherwise its components are appended
Join(p, name) ==
    IF name # <<>> /\ name[1] = "/" THEN FromStr(name) ELSE p \o FromStr(name)

IsPrefix(p, q) == Len(p) <= Len(q) /\ SubSeq(q, 1, Len(p)) = p

(***************************************************************************)
(* The filesystem.  A node is a file with its data or a directory with the *)
(* names of its children in enumeration order.  Every call can also fail   *)
(* because the environment refuses it: the oracle o of a key event names   *)
(* the calls <<operation, path>> that fail and the io::ErrorKind they fail *)
(* with, the path being the existing entry the call is made for (or the    *)
(* path to create when there is none).                                     *)
(***************************************************************************)
ErrorKinds == {"NotFound", "PermissionDenied", "Other"}

FileNode(d) == [kind |-> "file", data |-> d, ch |-> <<>>]
DirNode(names) == [kind |-> "dir", data |-> 0, ch |-> names]

\* an existence check that sees files only
ExistsAsFile(f, p) == p \in DOMAIN f /\ f[p].kind = "file"

\* Path::exists, Path::is_file, Path::is_dir
Exists(f, p) == p \in DOMAIN f
IsFile(f, p) == p \in DOMAIN f /\ f[p].kind = "file"
IsDir(f, p) == p \in DOMAIN f /\ f[p].kind = "dir"

InsertAt(s, slot, x) ==
    LET k == Min(slot, Len(s)) IN SubSeq(s, 1, k) \o <<x>> \o SubSeq(s, k + 1, Len(s))
RemoveName(s, x) == SelectSeq(s, LAMBDA y : y # x)

Dirname(p) == SubSeq(p, 1, Len(p) - 1)
Basename(p) == p[Len(p)]

\* p becomes `node`; a new name is entered in its directory at `slot`
AddNode(f, p, node, slot) ==
    IF p \in DOMAIN f
    THEN [f EXCEPT ![p] = node]
    ELSE [q \in DOMAIN f \cup {p} |->
            IF q = p THEN node
            ELSE IF q = Dirname(p) THEN [f[q] EXCEPT !.ch = InsertAt(@, slot, Basename(p))]
            ELSE f[q]]

\* p and everything below it disappear
DelTree(f, p) ==
    [q \in {r \in DOMAIN f : ~IsPrefix(p, r)} |->
        IF q = Dirname(p) THEN [f[q] EXCEPT !.ch = RemoveName(@, Basename(p))] ELSE f[q]]

\* the tree at `from` becomes the tree at `to`
MoveTree(f, from, to, slot) ==
    LET moved(q) == to \o SubSeq(q, Len(from) + 1, Len(q))
        rest == DelTree(f, from)
        dom == DOMAIN rest \cup {moved(q) : q \in {r \in DOMAIN f : IsPrefix(from, r)}}
    IN  [q \in dom |->
            IF IsPrefix(to, q)
            THEN f[from \o SubSeq(q, Len(to) + 1, Len(q))]
            ELSE IF q = Dirname(to) THEN [rest[q] EXCEPT !.ch = InsertAt(@, slot, Basename(to))]
            ELSE rest[q]]

NoFault == [deny |-> {}, kind |-> "Other"]
\* the outcome the environment forces on the call `op` on behalf of path p
Forced(o, op, p) == IF <<op, p>> \in o.deny THEN o.kind ELSE "Ok"

\* the oracles that make at most session.faults of the calls in `calls` fail
Oracles(calls) ==
    {NoFault} \cup
    {[deny |-> D, kind |-> k] :
        D \in {E \in SUBSET calls : E # {} /\ Cardinality(E) <= session.faults},
        k \in ErrorKinds}

Done(e, f) == [err |-> e, fs |-> f]

\* std::fs::File::create: creates the file or truncates an existing one
FsCreateFile(f, forced, p, slot) ==
    IF forced # "Ok" THEN Done(forced, f)
    ELSE IF Len(p) = 0 \/ Len(p) > MaxDepth \/ IsDir(f, p) THEN Done("Other", f)
    ELSE IF ~IsDir(f, Dirname(p)) THEN Done("NotFound", f)
    ELSE Done("Ok", AddNode(f, p, FileNode(0), slot))

\* std::fs::create_dir
FsCreateDir(f, forced, p, slot) ==
    IF forced # "Ok" THEN Done(forced, f)
    ELSE IF Len(p) = 0 \/ Len(p) > MaxDepth \/ Exists(f, p) THEN Done("Other", f)
    ELSE IF ~IsDir(f, Dirname(p)) THEN Done("NotFound", f)
    ELSE Done("Ok", AddNode(f, p, DirNode(<<>>), slot))

\* std::fs::copy: the destination gets the data of the source file
FsCopy(f, forced, src, dst, slot) ==
    IF forced # "Ok" THEN Done(forced, f)
    ELSE IF ~Exists(f, src) THEN Done("NotFound", f)
    ELSE IF ~IsFile(f, src) \/ Len(dst) = 0 \/ Len(dst) > MaxDepth \/ IsDir(f, dst)
         THEN Done("Other", f)
    ELSE IF ~IsDir(f, Dirname(dst)) THEN Done("NotFound", f)
    ELSE Done("Ok", AddNode(f, dst, FileNode(f[src].data), slot))

\* a rename that copies a file and leaves the source where it is
FsRenameKeepsSource(f, forced, from, to, slot) ==
    IF forced # "Ok" THEN Done(forced, f)
    ELSE IF ~IsFile(f, from) \/ Len(to) = 0 \/ ~IsDir(f, Dirname(to)) THEN Done("NotFound", f)
    ELSE Done("Ok", AddNode(f, to, f[from], slot))

\* std::fs::rename
FsRename(f, forced, from, to, slot) ==
    IF forced # "Ok" THEN Done(forced, f)
    ELSE IF ~Exists(f, from) \/ Len(to) = 0 \/ ~IsDir(f, Dirname(to)) THEN Done("NotFound", f)
    ELSE IF from = to THEN Done("Ok", f)
    ELSE IF Len(from) = 0 \/ IsPrefix(from, to) THEN Done("Other", f)
    ELSE IF Exists(f, to) /\ ~(IsFile(f, from) /\ IsFile(f, to)) THEN Done("Other", f)
    ELSE Done("Ok", MoveTree(DelTree(f, to), from, to, slot))

\* std::fs::remove_file
FsRemoveFile(f, forced, p) ==
    IF forced # "Ok" THEN Done(forced, f)
    ELSE IF ~Exists(f, p) THEN Done("NotFound", f)
    ELSE IF ~IsFile(f, p) THEN Done("Other", f)
    ELSE Done("Ok", DelTree(f, p))

\* std::fs::remove_dir: an empty directory only
FsRemoveDir(f, forced, p) ==
    IF forced # "Ok" THEN Done(forced, f)
    ELSE IF ~Exists(f, p) THEN Done("NotFound", f)
    ELSE IF ~IsDir(f, p) \/ Len(p) = 0 \/ f[p].ch # <<>> THEN Done("Other", f)
    ELSE Done("Ok", DelTree(f, p))

\* std::fs::remove_dir_all
FsRemoveDirAll(f, forced, p) ==
    IF forced # "Ok" THEN Done(forced, f)
    ELSE IF ~Exists(f, p) THEN Done("NotFound", f)
    ELSE IF ~IsDir(f, p) \/ Len(p) = 0 THEN Done("Other", f)
    ELSE Done("Ok", DelTree(f, p))

\* std::fs::read_dir, collected: the paths of the children in enumeration order
FsReadDir(f, forced, p) ==
    IF forced # "Ok" \/ ~IsDir(f, p)
    THEN [ok |-> FALSE, list |-> <<>>]
    ELSE [ok |-> TRUE, list |-> [i \in 1..Len(f[p].ch) |-> Append(p, f[p].ch[i])]]

(***************************************************************************)
(* WalkedError and the helpers of window.rs.                               *)
(***************************************************************************)
PathNotFound(p, k) ==
    [type |-> "PathNotFound", path |-> p, path_kind |-> k, text |-> "", to |-> <<>>]
PermissionDenied(p, k) ==
    [type |-> "PermissionDenied", path |-> p, path_kind |-> k, text |-> "", to |-> <<>>]
Message(t, p, q) ==
    [type |-> "Message", path |-> p, path_kind |-> "", text |-> t, to |-> q]

\* new_path: append ".1" to the string of the path until nothing exists there
RECURSIVE NewPathLoop(_, _, _)
NewPathLoop(f, res, res_string) ==
    IF Exists(f, res)
    THEN NewPathLoop(f, FromStr(res_string \o Suffix), res_string \o Suffix)
    ELSE res
\* a new_path that appends the suffix once without looking again
new_path_once(f, p) == IF Exists(f, p) THEN FromStr(ToStr(p) \o Suffix) ELSE p

new_path(f, p) == NewPathLoop(f, p, ToStr(p))

\* the name the panel shows and edits for an entry
EntryName(p) == IF IsSome(FileName(p)) THEN Unwrap(FileName(p)) ELSE <<>>

\* copy_recursively on st = [fs, errors]: one child after the other, in
\* enumeration order, never aborting
RECURSIVE CopyChildren(_, _, _, _, _, _)
RECURSIVE copy_recursively(_, _, _, _, _)
CopyChildren(st, o, slot, list, i, dest) ==
    IF i > Len(list) THEN st
    ELSE
    LET p == list[i]
        target == Append(dest, Basename(p))
        next ==
            IF IsFile(st.fs, p)
            THEN LET r == FsCopy(st.fs, Forced(o, "copy", p), p, target, slot) IN
                 [fs |-> r.fs,
                  errors |->
                    IF r.err = "Ok" THEN st.errors
                    ELSE IF r.err = "NotFound"
                         THEN Append(st.errors, PathNotFound(p, "File"))
                    ELSE IF r.err = "PermissionDenied"
                         THEN Append(st.errors, PermissionDenied(target, "File"))
                    ELSE Append(st.errors, Message("Couldn't copy file", p, target))]
            ELSE IF IsDir(st.fs, p)
            THEN LET r == FsCreateDir(st.fs, Forced(o, "mkdir", p), target, slot) IN
                 IF r.err = "Ok"
                 THEN copy_recursively([st EXCEPT !.fs = r.fs], o, slot, p, target)
                 ELSE [st EXCEPT !.errors =
                    IF r.err = "NotFound"
                    THEN Append(@, PathNotFound(target, "Dir"))
                    ELSE IF r.err = "PermissionDenied"
                         THEN Append(@, PermissionDenied(target, "Dir"))
                    ELSE Append(@, Message("Couldn't create directory", target, <<>>))]
            ELSE st
    IN  CopyChildren(next, o, slot, list, i + 1, dest)

\* a recursive copy that reports none of its failures
copy_silently(st, o, slot, src, dest) ==
    LET dir == FsReadDir(st.fs, Forced(o, "read_dir", src), src) IN
    IF dir.ok
    THEN [CopyChildren(st, o, slot, dir.list, 1, dest) EXCEPT !.errors = st.errors]
    ELSE st

copy_recursively(st, o, slot, src, dest) ==
    LET dir == FsReadDir(st.fs, Forced(o, "read_dir", src), src) IN
    IF dir.ok THEN CopyChildren(st, o, slot, dir.list, 1, dest) ELSE st

(***************************************************************************)
(* Key events and the default key bindings (Config::default).              *)
(***************************************************************************)
Char(c) == [t |-> "Char", c |-> c]
Named(t) == [t |-> t, c |-> ""]
KeyEvent(code, modifiers, kind) == [code |-> code, modifiers |-> modifiers, kind |-> kind]
Press(code, modifiers) == KeyEvent(code, modifiers, "Press")

config ==
    [new_file      |-> Press(Char("n"), "CONTROL"),
     new_directory |-> Press(Char("b"), "CONTROL"),
     duplicate     |-> Press(Char("d"), "CONTROL"),
     remove        |-> Press(Char("x"), "CONTROL"),
     copy          |-> Press(Char("y"), "CONTROL"),
     paste         |-> Press(Char("p"), "CONTROL"),
     up            |-> Press(Char("k"), "NONE"),
     select_up     |-> Press(Char("K"), "NONE"),
     down          |-> Press(Char("j"), "NONE"),
     select_down   |-> Press(Char("J"), "NONE"),
     left          |-> Press(Char("h"), "NONE"),
     right         |-> Press(Char("l"), "NONE"),
     insert_mode   |-> Press(Char("i"), "NONE"),
     normal_mode   |-> Press(Named("Esc"), "NONE"),
     quit          |-> Press(Char("q"), "NONE"),
     dir_walk      |-> Press(Char(" "), "NONE"),
     dir_up        |-> Press(Char("x"), "NONE")]

\* KeyModifiers is a set of flags: NONE is the empty set, union is \cup
Bits(modifiers) == IF modifiers = "NONE" THEN {} ELSE {modifiers}
\* code and modifiers of a binding, the two fields a configuration file sets
Binding(ke) == [code |-> ke.code, modifiers |-> Bits(ke.modifiers)]
\* the configuration file has no value for the action
Absent == [kind |-> "None", str |-> <<>>]

\* the key events the user sends: every bound key, Enter, Backspace, the
\* reserved characters, and key releases
Keys ==
    {config[a] : a \in DOMAIN config}
    \cup {Press(Named("Enter"), "NONE"), Press(Named("Backspace"), "NONE")}
    \cup {Press(Char(c), "NONE") : c \in disallowed_chars}
    \cup {KeyEvent(Named("Enter"), "NONE", "Release"),
          KeyEvent(Named("Esc"), "NONE", "Release"),
          KeyEvent(Char("q"), "NONE", "Release")}

(***************************************************************************)
(* The panel: its fields as a record, and its methods.                     *)
(***************************************************************************)
Self ==
    [working_directory |-> working_directory, entries |-> entries, mode |-> mode,
     selected |-> selected, cursor_offset |-> cursor_offset,
     current_entry_length |-> current_entry_length, edit_buffer |-> edit_buffer,
     selection_start |-> selection_start, errors |-> errors]

\* TableState::select_first, scroll_up_by(1), scroll_down_by(1)
select_first(s) == [s EXCEPT !.selected = Some(0)]
scroll_up_by(s) ==
    [s EXCEPT !.selected = Some(SatSub(IF IsSome(@) THEN Unwrap(@) ELSE 0, 1))]
scroll_down_by(s) ==
    [s EXCEPT !.selected = Some((IF IsSome(@) THEN Unwrap(@) ELSE 0) + 1)]

\* Panel::refresh_cursor
refresh_cursor(s) ==
    IF IsSome(s.selected) /\ Unwrap(s.selected) < Len(s.entries)
    THEN LET name == EntryName(s.entries[Unwrap(s.selected) + 1]) IN
         [s EXCEPT !.current_entry_length = Len(name),
                   !.cursor_offset = Min(@, Len(name))]
    ELSE s

\* Panel::read_working_dir: a listing that fails leaves entries as they are
read_working_dir(s, f, o) ==
    LET dir == FsReadDir(f, Forced(o, "read_dir", s.working_directory),
                         s.working_directory) IN
    IF dir.ok THEN [s EXCEPT !.entries = dir.list] ELSE s

\* a draw that leaves the selection where the handler put it
RenderUnclamped(s) == s

\* the Table widget drawn after every event keeps the selection inside the rows
Render(s) ==
    LET clamped ==
            IF IsSome(s.selected) /\ Unwrap(s.selected) >= Len(s.entries)
            THEN Some(SatSub(Len(s.entries), 1))
            ELSE s.selected
    IN  [s EXCEPT !.selected = IF Len(s.entries) = 0 THEN None ELSE clamped]

\* Panel::walk: [s, ok, panic]
walk(s, f, o, current_entry) ==
    IF Len(s.entries) = 0 THEN [s |-> s, ok |-> FALSE, panic |-> FALSE]
    ELSE IF current_entry >= Len(s.entries) THEN [s |-> s, ok |-> FALSE, panic |-> TRUE]
    ELSE LET sel == s.entries[current_entry + 1] IN
         IF IsDir(f, sel)
         THEN [s |-> read_working_dir([s EXCEPT !.working_directory = sel], f, o),
               ok |-> TRUE, panic |-> FALSE]
         ELSE [s |-> s, ok |-> FALSE, panic |-> FALSE]

\* Panel::parent
parent(s, f, o) ==
    IF IsSome(Parent(s.working_directory))
    THEN [s |-> read_working_dir(
                    [s EXCEPT !.working_directory = Unwrap(Parent(s.working_directory))],
                    f, o),
          ok |-> TRUE]
    ELSE [s |-> s, ok |-> FALSE]

(***************************************************************************)
(* The Normal-mode branches of Panel::process_key_event.  Each yields the  *)
(* panel, the filesystem and the clipboard it leaves, and what it reports. *)
(***************************************************************************)
Out(s, f, c, refresh, quit, panic) ==
    [s |-> s, fs |-> f, clipboard |-> c, should_refresh |-> refresh, quit |-> quit,
     panic |-> panic]
\* an error reported twice
PushTwice(s, e) == [s EXCEPT !.errors = Append(Append(@, e), e)]
Push(s, e) == [s EXCEPT !.errors = Append(@, e)]

\* the error a failed std::fs::copy is mapped to
CopyError(err, src, dst) ==
    IF err = "NotFound" THEN PathNotFound(src, "File")
    ELSE IF err = "PermissionDenied" THEN PermissionDenied(dst, "File")
    ELSE Message("Couldn't copy file", src, dst)
\* the error a failed std::fs::create_dir is mapped to
CreateDirError(err, dir) ==
    IF err = "PermissionDenied" THEN PermissionDenied(dir, "Dir")
    ELSE Message("Couldn't create directory", dir, <<>>)
\* the error a failed std::fs::File::create is mapped to
CreateFileError(err, file) ==
    IF err = "PermissionDenied" THEN PermissionDenied(file, "File")
    ELSE Message("Couldn't create file", file, <<>>)
\* the error a failed removal is mapped to
RemoveError(err, entry, kind) ==
    IF err = "NotFound" THEN PathNotFound(entry, kind)
    ELSE IF err = "PermissionDenied" THEN PermissionDenied(entry, kind)
    ELSE Message(IF kind = "File" THEN "Couldn't remove file"
                 ELSE "Couldn't remove directory", entry, <<>>)
\* the error a failed std::fs::rename is mapped to
RenameError(err, entry, dist) ==
    IF err = "NotFound" THEN PathNotFound(entry, "Ambigious")
    ELSE IF err = "PermissionDenied" THEN PermissionDenied(entry, "Ambigious")
    ELSE Message("Couldn't rename", entry, dist)

\* a loop that selects the entry after the created one
SelectAfterCreated(s, created) ==
    IF \E i \in 1..Len(s.entries) : s.entries[i] = created
    THEN [s EXCEPT !.selected = Some(CHOOSE i \in 1..Len(s.entries) :
                                         s.entries[i] = created),
                   !.mode = "Insert", !.edit_buffer = <<>>, !.cursor_offset = 0]
    ELSE s

\* the entry the new-file / new-directory loop selects for naming
SelectCreated(s, created) ==
    IF \E i \in 1..Len(s.entries) : s.entries[i] = created
    THEN [s EXCEPT !.selected = Some((CHOOSE i \in 1..Len(s.entries) :
                                          s.entries[i] = created) - 1),
                   !.mode = "Insert", !.edit_buffer = <<>>, !.cursor_offset = 0]
    ELSE s

\* a walk that drops the anchor also when it does not move
dir_walk_clearing(s, f, c, o) ==
    IF IsSome(s.selected)
    THEN LET w == walk(s, f, o, Unwrap(s.selected)) IN
         IF w.panic THEN Out(s, f, c, FALSE, FALSE, TRUE)
         ELSE IF w.ok THEN Out(refresh_cursor(select_first(w.s)), f, c, FALSE, FALSE, FALSE)
         ELSE Out([s EXCEPT !.selection_start = None], f, c, FALSE, FALSE, FALSE)
    ELSE Out(s, f, c, FALSE, FALSE, FALSE)

dir_walk(s, f, c, o) ==
    IF IsSome(s.selected)
    THEN LET w == walk(s, f, o, Unwrap(s.selected)) IN
         IF w.panic THEN Out(s, f, c, FALSE, FALSE, TRUE)
         ELSE IF w.ok THEN Out(refresh_cursor(select_first(w.s)), f, c, FALSE, FALSE, FALSE)
         ELSE Out(s, f, c, FALSE, FALSE, FALSE)
    ELSE Out(s, f, c, FALSE, FALSE, FALSE)

dir_up(s, f, c, o) ==
    LET w == parent(s, f, o) IN
    IF w.ok THEN Out(refresh_cursor(select_first(w.s)), f, c, FALSE, FALSE, FALSE)
    ELSE Out(s, f, c, FALSE, FALSE, FALSE)

\* a select move that always anchors at the cursor
AnchorAtCursor(s) == s.selected

\* the anchor a select move leaves
Anchor(s) == IF s.selection_start = None THEN s.selected ELSE s.selection_start

move_up(s, f, c) ==
    Out(refresh_cursor(scroll_up_by([s EXCEPT !.selection_start = None])),
        f, c, FALSE, FALSE, FALSE)
select_up(s, f, c) ==
    Out(refresh_cursor(scroll_up_by([s EXCEPT !.selection_start = Anchor(s)])),
        f, c, FALSE, FALSE, FALSE)
move_down(s, f, c) ==
    Out(refresh_cursor(scroll_down_by([s EXCEPT !.selection_start = None])),
        f, c, FALSE, FALSE, FALSE)
select_down(s, f, c) ==
    Out(refresh_cursor(scroll_down_by([s EXCEPT !.selection_start = Anchor(s)])),
        f, c, FALSE, FALSE, FALSE)

move_left(s, f, c) ==
    Out([s EXCEPT !.cursor_offset = IF @ > 0 THEN @ - 1 ELSE @], f, c, FALSE, FALSE, FALSE)
move_right(s, f, c) ==
    Out([s EXCEPT !.cursor_offset = IF @ < s.current_entry_length THEN @ + 1 ELSE @],
        f, c, FALSE, FALSE, FALSE)

new_file(s, f, c, o, slot) ==
    LET file == new_path(f, Append(s.working_directory, NEWFILE))
        r == FsCreateFile(f, Forced(o, "create", file), file, slot)
    IN  IF r.err # "Ok"
        THEN Out(Push(s, CreateFileError(r.err, file)), f, c, FALSE, FALSE, FALSE)
        ELSE Out(SelectCreated(read_working_dir(s, r.fs, o), file),
                 r.fs, c, TRUE, FALSE, FALSE)

new_directory(s, f, c, o, slot) ==
    LET dir == new_path(f, Append(s.working_directory, NEWDIR))
        r == FsCreateDir(f, Forced(o, "mkdir", dir), dir, slot)
    IN  IF r.err # "Ok"
        THEN Out(Push(s, CreateDirError(r.err, dir)), f, c, FALSE, FALSE, FALSE)
        ELSE Out(SelectCreated(read_working_dir(s, r.fs, o), dir),
                 r.fs, c, TRUE, FALSE, FALSE)

\* the loop of duplicate over the entries lo..=hi, on st = [fs, errors, refresh, panic]
RECURSIVE DuplicateLoop(_, _, _, _, _, _)
DuplicateLoop(st, o, slot, ents, i, hi) ==
    IF i > hi THEN st
    ELSE IF i >= Len(ents) THEN [st EXCEPT !.panic = TRUE]
    ELSE
    LET entry_path == ents[i + 1]
        new_entry_path == new_path(st.fs, entry_path)
        next ==
            IF IsFile(st.fs, entry_path)
            THEN LET r == FsCopy(st.fs, Forced(o, "copy", entry_path), entry_path,
                                 new_entry_path, slot) IN
                 [st EXCEPT !.fs = r.fs, !.refresh = TRUE,
                            !.errors = IF r.err = "Ok" THEN @
                                       ELSE Append(@, CopyError(r.err, entry_path,
                                                                new_entry_path))]
            ELSE IF IsDir(st.fs, entry_path)
            THEN LET r == FsCreateDir(st.fs, Forced(o, "mkdir", entry_path),
                                      new_entry_path, slot) IN
                 IF r.err # "Ok"
                 THEN [st EXCEPT !.refresh = TRUE,
                                 !.errors = Append(@, CreateDirError(r.err, new_entry_path))]
                 ELSE LET cp == copy_recursively([fs |-> r.fs, errors |-> st.errors],
                                                 o, slot, entry_path, new_entry_path) IN
                      [st EXCEPT !.fs = cp.fs, !.errors = cp.errors, !.refresh = TRUE]
            ELSE st
    IN  DuplicateLoop(next, o, slot, ents, i + 1, hi)

\* the loop of paste over the clipboard
RECURSIVE PasteLoop(_, _, _, _, _, _)
PasteLoop(st, o, slot, wd, clip, k) ==
    IF k > Len(clip) THEN st
    ELSE IF FileName(clip[k]) = None THEN [st EXCEPT !.panic = TRUE]
    ELSE
    LET entry_path == clip[k]
        new_entry_path == new_path(st.fs, Append(wd, Unwrap(FileName(entry_path))))
        next ==
            IF IsFile(st.fs, entry_path)
            THEN LET r == FsCopy(st.fs, Forced(o, "copy", entry_path), entry_path,
                                 new_entry_path, slot) IN
                 [st EXCEPT !.fs = r.fs, !.refresh = TRUE,
                            !.errors = IF r.err = "Ok" THEN @
                                       ELSE Append(@, CopyError(r.err, entry_path,
                                                                new_entry_path))]
            ELSE IF IsDir(st.fs, entry_path)
            THEN LET r == FsCreateDir(st.fs, Forced(o, "mkdir", entry_path),
                                      new_entry_path, slot) IN
                 IF r.err # "Ok"
                 THEN [st EXCEPT !.refresh = TRUE,
                                 !.errors = Append(@, CreateDirError(r.err, new_entry_path))]
                 ELSE LET cp == copy_recursively([fs |-> r.fs, errors |-> st.errors],
                                                 o, slot, entry_path, new_entry_path) IN
                      [st EXCEPT !.fs = cp.fs, !.errors = cp.errors, !.refresh = TRUE]
            ELSE st
    IN  PasteLoop(next, o, slot, wd, clip, k + 1)

\* the loop of remove over the entries lo..=hi
RECURSIVE RemoveLoop(_, _, _, _, _)
RemoveLoop(st, o, ents, i, hi) ==
    IF i > hi THEN st
    ELSE IF i >= Len(ents) THEN [st EXCEPT !.panic = TRUE]
    ELSE
    LET entry == ents[i + 1]
        next ==
            IF IsFile(st.fs, entry)
            THEN LET r == FsRemoveFile(st.fs, Forced(o, "remove_file", entry), entry) IN
                 [st EXCEPT !.fs = r.fs, !.refresh = TRUE,
                            !.errors = IF r.err = "Ok" THEN @
                                       ELSE Append(@, RemoveError(r.err, entry, "File"))]
            ELSE IF IsDir(st.fs, entry)
            THEN LET dir == FsReadDir(st.fs, Forced(o, "read_dir", entry), entry) IN
                 IF dir.ok
                 THEN LET r == IF Len(dir.list) > 0
                               THEN FsRemoveDirAll(st.fs, Forced(o, "remove_dir_all", entry),
                                                   entry)
                               ELSE FsRemoveDir(st.fs, Forced(o, "remove_dir", entry),
                                                entry) IN
                      [st EXCEPT !.fs = r.fs, !.refresh = TRUE,
                                 !.errors = IF r.err = "Ok" THEN @
                                            ELSE Append(@, RemoveError(r.err, entry, "Dir"))]
                 ELSE st
            ELSE st
    IN  RemoveLoop(next, o, ents, i + 1, hi)

\* a loop end that re-reads the listing and reports no change
AfterLoopQuiet(s, st, c, o) ==
    LET s1 == [s EXCEPT !.errors = st.errors] IN
    IF st.panic THEN Out(s1, st.fs, c, FALSE, FALSE, TRUE)
    ELSE IF st.refresh THEN Out(read_working_dir(s1, st.fs, o), st.fs, c, FALSE, FALSE, FALSE)
    ELSE Out(s1, st.fs, c, FALSE, FALSE, FALSE)

\* what a loop leaves, followed by the re-read `if refresh`
AfterLoop(s, st, c, o) ==
    LET s1 == [s EXCEPT !.errors = st.errors] IN
    IF st.panic THEN Out(s1, st.fs, c, FALSE, FALSE, TRUE)
    ELSE IF st.refresh THEN Out(read_working_dir(s1, st.fs, o), st.fs, c, TRUE, FALSE, FALSE)
    ELSE Out(s1, st.fs, c, FALSE, FALSE, FALSE)

Start(s, f) == [fs |-> f, errors |-> s.errors, refresh |-> FALSE, panic |-> FALSE]

duplicate(s, f, c, o, slot) ==
    IF IsSome(s.selected)
    THEN LET current_entry == Unwrap(s.selected)
             start == IF IsSome(s.selection_start) THEN Unwrap(s.selection_start)
                      ELSE current_entry
             s1 == [s EXCEPT !.selection_start = None]
         IN  AfterLoop(s1, DuplicateLoop(Start(s, f), o, slot, s.entries,
                                         Min(current_entry, start),
                                         Max(current_entry, start)), c, o)
    ELSE Out(s, f, c, FALSE, FALSE, FALSE)

copy(s, f, c) ==
    IF IsSome(s.selected)
    THEN LET current_entry == Unwrap(s.selected)
             lo == IF IsSome(s.selection_start)
                   THEN Min(current_entry, Unwrap(s.selection_start)) ELSE current_entry
             hi == IF IsSome(s.selection_start)
                   THEN Max(current_entry, Unwrap(s.selection_start)) ELSE current_entry
         IN  IF hi >= Len(s.entries)
             THEN Out(s, f, SubSeq(s.entries, lo + 1, Len(s.entries)), FALSE, FALSE, TRUE)
             ELSE Out(s, f, SubSeq(s.entries, lo + 1, hi + 1), FALSE, FALSE, FALSE)
    ELSE Out(s, f, c, FALSE, FALSE, FALSE)

\* a paste that empties the clipboard when it is done
paste_and_clear(s, f, c, o, slot) ==
    [AfterLoop(s, PasteLoop(Start(s, f), o, slot, s.working_directory, c, 1), c, o)
        EXCEPT !.clipboard = <<>>]

\* a paste that reports the clipboard entries that are gone
paste_reporting(s, f, c, o, slot) ==
    LET out == AfterLoop(s, PasteLoop(Start(s, f), o, slot, s.working_directory, c, 1), c, o)
        gone == SelectSeq(c, LAMBDA p : ~Exists(f, p))
    IN  IF gone # <<>>
        THEN [out EXCEPT !.s.errors = Append(@, PathNotFound(gone[1], "Ambigious"))]
        ELSE out

\* a paste that moves: the first clipboard entry is removed once copied
paste_moving(s, f, c, o, slot) ==
    LET out == AfterLoop(s, PasteLoop(Start(s, f), o, slot, s.working_directory, c, 1), c, o)
    IN  IF c # <<>> /\ Len(c[1]) > 0 /\ c[1] \in DOMAIN out.fs
        THEN [out EXCEPT !.fs = DelTree(@, c[1])]
        ELSE out

paste(s, f, c, o, slot) ==
    AfterLoop(s, PasteLoop(Start(s, f), o, slot, s.working_directory, c, 1), c, o)

remove(s, f, c, o) ==
    IF IsSome(s.selected)
    THEN LET current_entry == Unwrap(s.selected)
             start == IF IsSome(s.selection_start) THEN Unwrap(s.selection_start)
                      ELSE current_entry
             s1 == [s EXCEPT !.selection_start = None]
         IN  AfterLoop(s1, RemoveLoop(Start(s, f), o, s.entries,
                                      Min(current_entry, start),
                                      Max(current_entry, start)), c, o)
    ELSE Out(s, f, c, FALSE, FALSE, FALSE)

\* an insert-mode action that puts the text cursor at the end of the name
insert_mode_at_end(s, f, c) ==
    IF Len(s.entries) > 0 /\ IsSome(s.selected) /\ Unwrap(s.selected) < Len(s.entries)
    THEN LET name == EntryName(s.entries[Unwrap(s.selected) + 1]) IN
         Out([s EXCEPT !.mode = "Insert", !.edit_buffer = name, !.cursor_offset = Len(name)],
             f, c, FALSE, FALSE, FALSE)
    ELSE Out(s, f, c, FALSE, FALSE, FALSE)

insert_mode(s, f, c) ==
    IF Len(s.entries) > 0
    THEN IF IsSome(s.selected)
         THEN IF Unwrap(s.selected) >= Len(s.entries)
              THEN Out(s, f, c, FALSE, FALSE, TRUE)
              ELSE Out([s EXCEPT !.mode = "Insert",
                                 !.edit_buffer = EntryName(s.entries[Unwrap(s.selected) + 1])],
                       f, c, FALSE, FALSE, FALSE)
         ELSE Out([s EXCEPT !.mode = "Insert"], f, c, FALSE, FALSE, FALSE)
    ELSE Out(s, f, c, FALSE, FALSE, FALSE)

(***************************************************************************)
(* The Insert-mode branches.  A String is a sequence of characters, each   *)
(* character the string of its UTF-8 code units; String::len,              *)
(* char_indices, remove and insert count in bytes.                         *)
(***************************************************************************)
Utf8Len(ch) == Len(ch)

RECURSIVE ByteLen(_)
ByteLen(str) == IF str = <<>> THEN 0 ELSE Utf8Len(Head(str)) + ByteLen(Tail(str))

\* the byte offset of the character with (0-based) index i
ByteOffset(str, i) == ByteLen(SubSeq(str, 1, i))

\* the character indices that start at byte idx
CharsAt(str, idx) == {j \in 0..(Len(str) - 1) : ByteOffset(str, j) = idx}

\* the idx the backspace loop ends with
RECURSIVE BackspaceIdx(_, _, _, _)
BackspaceIdx(str, cursor, i, idx) ==
    IF i >= Len(str) \/ i >= cursor THEN idx
    ELSE BackspaceIdx(str, cursor, i + 1, ByteOffset(str, i))

\* the idx the insertion loop ends with
InsertIdx(str, cursor) ==
    IF cursor < Len(str) THEN ByteOffset(str, cursor) ELSE ByteLen(str)

backspace(s, f, c) ==
    IF s.cursor_offset > 0
    THEN IF ByteLen(s.edit_buffer) = 0
         THEN Out(s, f, c, FALSE, FALSE, TRUE)
         ELSE LET idx == BackspaceIdx(s.edit_buffer, s.cursor_offset, 0,
                                      ByteLen(s.edit_buffer) - 1)
              IN  IF CharsAt(s.edit_buffer, idx) = {}
                  THEN Out(s, f, c, FALSE, FALSE, TRUE)
                  ELSE LET j == CHOOSE j \in CharsAt(s.edit_buffer, idx) : TRUE IN
                       Out([s EXCEPT !.edit_buffer = SubSeq(@, 1, j) \o
                                                     SubSeq(@, j + 2, Len(@)),
                                     !.cursor_offset = @ - 1],
                           f, c, FALSE, FALSE, FALSE)
    ELSE Out(s, f, c, FALSE, FALSE, FALSE)

\* a character always inserted in front of the buffer
type_char_in_front(s, f, c, ch) ==
    Out([s EXCEPT !.edit_buffer = <<ch>> \o @, !.cursor_offset = @ + 1],
        f, c, FALSE, FALSE, FALSE)

\* a character handler that lets the quit key through
type_char_or_quit(s, f, c, ch) ==
    IF ch = config.quit.code.c THEN Out(s, f, c, FALSE, TRUE, FALSE)
    ELSE Out([s EXCEPT !.edit_buffer = Append(@, ch), !.cursor_offset = @ + 1],
             f, c, FALSE, FALSE, FALSE)

type_char(s, f, c, ch) ==
    LET idx == InsertIdx(s.edit_buffer, s.cursor_offset)
        j == IF idx = ByteLen(s.edit_buffer) THEN Len(s.edit_buffer)
             ELSE CHOOSE j \in CharsAt(s.edit_buffer, idx) : TRUE
    IN  Out([s EXCEPT !.edit_buffer = SubSeq(@, 1, j) \o <<ch>> \o SubSeq(@, j + 1, Len(@)),
                      !.cursor_offset = @ + 1],
            f, c, FALSE, FALSE, FALSE)

\* a commit that empties the buffer and stays in Insert mode
StayInsert(s) == [s EXCEPT !.edit_buffer = <<>>]

\* a return to Normal mode that keeps the text
LeaveKeepingBuffer(s) == [s EXCEPT !.mode = "Normal"]

\* leaving Insert mode: `if !denied`
LeaveInsert(s) == [s EXCEPT !.mode = "Normal", !.edit_buffer = <<>>]

commit(s, f, c, o, slot) ==
    IF IsSome(s.selected) /\ ByteLen(s.edit_buffer) > 0 /\ Len(s.entries) > 0
    THEN LET i == Unwrap(s.selected)
             dist == Join(s.working_directory, s.edit_buffer)
         IN  IF Contains(s.edit_buffer, disallowed_chars)
             THEN Out(Push(s, Message("Paths can't contain the following characters",
                                      <<>>, <<>>)),
                      f, c, FALSE, FALSE, FALSE)
             ELSE IF i >= Len(s.entries) THEN Out(s, f, c, FALSE, FALSE, TRUE)
             ELSE IF Exists(f, dist)
             THEN IF dist # s.entries[i + 1]
                  THEN Out(Push(s, Message("already exists", dist, <<>>)),
                           f, c, FALSE, FALSE, FALSE)
                  ELSE Out(LeaveInsert(s), f, c, FALSE, FALSE, FALSE)
             ELSE LET r == FsRename(f, Forced(o, "rename", s.entries[i + 1]),
                                    s.entries[i + 1], dist, slot) IN
                  IF r.err # "Ok"
                  THEN Out(LeaveInsert(Push(s, RenameError(r.err, s.entries[i + 1], dist))),
                           f, c, FALSE, FALSE, FALSE)
                  ELSE Out(LeaveInsert([s EXCEPT !.entries[i + 1] = dist]),
                           r.fs, c, TRUE, FALSE, FALSE)
    ELSE Out(LeaveInsert(s), f, c, FALSE, FALSE, FALSE)

(***************************************************************************)
(* The state machine: one step handles one key event and draws the table.  *)
(***************************************************************************)
\* the filesystem the session starts on: /a holds the file f? (a legal name
\* on Unix) and the directory d, which holds the file y
DirA == <<<<"a">>>>
InitFs ==
    (<<>> :> DirNode(<< <<"a">> >>))
    @@ (DirA :> DirNode(<< <<"f", "?">>, <<"d">> >>))
    @@ (Append(DirA, <<"f", "?">>) :> FileNode(1))
    @@ (Append(DirA, <<"d">>) :> DirNode(<< <<"y">> >>))
    @@ (Append(Append(DirA, <<"d">>), <<"y">>) :> FileNode(2))

\* Panel::new
NewPanel(current_dir, f) ==
    refresh_cursor(select_first(read_working_dir(
        [working_directory |-> current_dir, entries |-> <<>>, mode |-> "Normal",
         selected |-> None, cursor_offset |-> 0, current_entry_length |-> 0,
         edit_buffer |-> <<>>, selection_start |-> None, errors |-> <<>>],
        f, NoFault)))

\* the fields of the panel record become the state
Store(s) ==
    /\ working_directory' = s.working_directory
    /\ entries' = s.entries
    /\ mode' = s.mode
    /\ selected' = s.selected
    /\ cursor_offset' = s.cursor_offset
    /\ current_entry_length' = s.current_entry_length
    /\ edit_buffer' = s.edit_buffer
    /\ selection_start' = s.selection_start
    /\ errors' = s.errors

\* What the user does in a run: the keys at hand for each key event in turn,
\* and how many calls of one event the environment may fail.  Either every
\* key is at hand for MaxKeys events, or the user empties the directory d,
\* pastes a copied file into it and starts to edit a name there.
AnyKey == [keys \in 1..MaxKeys |-> Keys]
PasteIntoEmptied ==
    <<{config.copy}, {config.down}, {config.dir_walk}, {config.remove},
      {config.paste, config.dir_walk},
      {config.insert_mode, config.left}, {Press(Char(c), "NONE") : c \in {"?", "\\"}},
      {Press(Named("Enter"), "NONE"), config.normal_mode, Press(Named("Backspace"), "NONE")}>>
\* or the user creates a file or a directory, names it with up to two
\* characters and goes on
NameNewFile ==
    <<{config.new_file, config.new_directory},
      {config.new_file, config.new_directory, config.duplicate,
       Press(Char("?"), "NONE"), Press(Named("Enter"), "NONE")},
      {config.new_file, config.new_directory, config.duplicate, config.remove,
       config.dir_walk, Press(Named("Enter"), "NONE"), config.normal_mode},
      {config.new_file, config.new_directory, config.remove, config.dir_walk,
       config.dir_up, Press(Named("Enter"), "NONE"), config.normal_mode}>>
\* or the user selects upwards from the second entry, leaves the directory
\* for its parent and acts on the selection
SelectThenLeave ==
    <<{config.down}, {config.select_up}, {config.dir_up},
      {config.copy, config.duplicate, config.remove}>>
\* or the user copies entries and pastes them, here or in the directory d
CopyThenPaste ==
    <<{config.copy, config.select_down, config.down},
      {config.copy, config.dir_walk, config.paste},
      {config.paste, config.copy, config.dir_walk},
      {config.paste}>>
\* or the user creates a file, keeps its name, moves the text cursor to the
\* right and removes the file
RemoveCreated ==
    <<{config.new_file}, {config.normal_mode}, {config.right}, {config.right, config.left},
      {config.remove, config.up, config.insert_mode}>>
\* a character of two UTF-8 code units, written as the string of the two
TwoByte == "e2"
\* or the user types and deletes characters in the name of a new file, or in
\* the name of d with the text cursor behind it
EditName ==
    <<{config.new_file, config.down},
      {Press(Char(TwoByte), "NONE"), Press(Char("?"), "NONE"), config.right},
      {Press(Char(TwoByte), "NONE"), Press(Char("?"), "NONE"),
       Press(Named("Backspace"), "NONE"), config.insert_mode},
      {Press(Named("Backspace"), "NONE"), Press(Char(TwoByte), "NONE")},
      {Press(Named("Backspace"), "NONE"), Press(Char("?"), "NONE")}>>
\* or the user moves the text cursor, empties the directory d, pastes a
\* copied file into it and edits with no entry selected
EditInEmptied ==
    <<{config.right}, {config.copy}, {config.down}, {config.dir_walk}, {config.remove},
      {config.paste}, {config.insert_mode},
      {Press(Named("Backspace"), "NONE"), Press(Char("?"), "NONE")}>>
\* or the user removes or duplicates several entries, or a tree, while the
\* environment fails more than one call, and then dismisses the errors
FailTwice ==
    <<{config.select_down, config.dir_up}, {config.remove, config.duplicate},
      {config.down, KeyEvent(Named("Enter"), "NONE", "Release")}>>
\* or the user copies entries, removes one of them and pastes
PasteRemoved ==
    <<{config.select_down, config.down}, {config.copy, config.dir_walk},
      {config.up, config.copy}, {config.remove}, {config.paste}>>
Sessions ==
    {[script |-> AnyKey, faults |-> MaxFaults],
     [script |-> PasteRemoved, faults |-> 0],
     [script |-> FailTwice, faults |-> MaxFaults + 1],
     [script |-> EditName, faults |-> 0],
     [script |-> EditInEmptied, faults |-> 0],
     [script |-> RemoveCreated, faults |-> 0],
     [script |-> PasteIntoEmptied, faults |-> 0],
     [script |-> NameNewFile, faults |-> MaxFaults],
     [script |-> SelectThenLeave, faults |-> 0],
     [script |-> CopyThenPaste, faults |-> MaxFaults]}
\* the keys at hand for the next key event
KeysNow == session.script[nkeys + 1]

NoTyping == [on |-> FALSE, placeholder |-> <<>>, name |-> <<>>]

\* a panel of the grid: the n-th panel the window made, seeded with a directory
Pane(n, dir) == [id |-> n, working_directory |-> dir]

InitIn(sessions) ==
    /\ fs = InitFs
    /\ LET s == Render(NewPanel(DirA, InitFs)) IN
        /\ working_directory = s.working_directory
        /\ entries = s.entries
        /\ mode = s.mode
        /\ selected = s.selected
        /\ cursor_offset = s.cursor_offset
        /\ current_entry_length = s.current_entry_length
        /\ edit_buffer = s.edit_buffer
        /\ selection_start = s.selection_start
        /\ errors = s.errors
    /\ clipboard = <<>>
    /\ result = [quit |-> FALSE, should_refresh |-> FALSE]
    /\ last = "start"
    /\ panicked = FALSE
    /\ nkeys = 0
    /\ fault = NoFault
    /\ typing = NoTyping
    /\ session \in sessions
    /\ panel_focus_i = 0
    /\ panel_focus_j = 0
    /\ toml = Absent

\* the window of one panel; no configuration file is read
OnePanel ==
    /\ panels = <<<<Pane(0, DirA)>>>>
    /\ key_event = Binding(config.quit)

Init == InitIn(Sessions) /\ OnePanel

\* the loop reads the next event: the session is neither over nor aborted
Running == ~panicked /\ ~result.quit /\ nkeys < Len(session.script)

\* the branch of the Normal-mode cascade a key event takes
NormalBranch(ke) ==
    IF ke = config.dir_walk THEN "dir_walk"
    ELSE IF ke = config.dir_up THEN "dir_up"
    ELSE IF ke = config.up THEN "up"
    ELSE IF ke = config.select_up THEN "select_up"
    ELSE IF ke = config.down THEN "down"
    ELSE IF ke = config.select_down THEN "select_down"
    ELSE IF ke = config.left THEN "left"
    ELSE IF ke = config.right THEN "right"
    ELSE IF ke = config.new_file THEN "new_file"
    ELSE IF ke = config.new_directory THEN "new_directory"
    ELSE IF ke = config.duplicate /\ Len(entries) > 0 THEN "duplicate"
    ELSE IF ke = config.copy /\ Len(entries) > 0 THEN "copy"
    ELSE IF ke = config.paste THEN "paste"
    ELSE IF ke = config.remove /\ Len(entries) > 0 THEN "remove"
    ELSE IF ke = config.insert_mode THEN "insert_mode"
    ELSE IF ke = config.quit THEN "quit"
    ELSE "none"

\* the branch of the Insert-mode cascade a key event takes
InsertBranch(ke) ==
    IF ke = config.normal_mode \/ (ke.code = Named("Enter") /\ ke.kind = "Press")
    THEN "commit"
    ELSE IF ke.kind = "Press"
    THEN IF ke.code = Named("Backspace") THEN "backspace"
         ELSE IF ke.code.t = "Char" THEN "char"
         ELSE "none"
    ELSE "none"

\* a Normal-mode key event with no error pending that takes branch b
Normal(b) ==
    /\ Running /\ errors = <<>> /\ mode = "Normal"
    /\ \E ke \in KeysNow : NormalBranch(ke) = b
\* an Insert-mode key event with no error pending that takes branch b
Insert(b) ==
    /\ Running /\ errors = <<>> /\ mode = "Insert"
    /\ \E ke \in KeysNow : InsertBranch(ke) = b

\* a panel of the grid that is not focused: its fields, and whether it was
\* refreshed when the last key event was handled
Other(n, s) ==
    [id |-> n, working_directory |-> s.working_directory, panel |-> s,
     refreshed |-> FALSE]
\* the refresh of a panel: its listing is read again, its cursor brought
\* inside the selected name, and it is drawn
refresh_panel(cell, f, o) ==
    [cell EXCEPT !.panel = Render(refresh_cursor(read_working_dir(@, f, o))),
                 !.refreshed = TRUE]
\* a window that refreshes only the panels of the focused row
refresh_row(grid, i, j, f, o, should_refresh) ==
    [r \in DOMAIN grid |-> [c \in DOMAIN grid[r] |->
        IF r = i + 1 /\ c = j + 1 THEN grid[r][c]
        ELSE IF should_refresh /\ r = i + 1 THEN refresh_panel(grid[r][c], f, o)
        ELSE [grid[r][c] EXCEPT !.refreshed = FALSE]]]
\* the window after the focused panel (i, j) handled a key event: when the
\* panel reports a change every other panel is refreshed
refresh_others(grid, i, j, f, o, should_refresh) ==
    [r \in DOMAIN grid |-> [c \in DOMAIN grid[r] |->
        IF r = i + 1 /\ c = j + 1 THEN grid[r][c]
        ELSE IF should_refresh THEN refresh_panel(grid[r][c], f, o)
        ELSE [grid[r][c] EXCEPT !.refreshed = FALSE]]]

\* the state after the branch `out` and the draw that follows it; every
\* Normal-mode branch but quit ends with refresh_cursor
Apply(out, label, trailing, o, t) ==
    /\ last' = label
    /\ nkeys' = nkeys + 1
    /\ fault' = o
    /\ typing' = t
    /\ session' = session
    /\ UNCHANGED <<panel_focus_i, panel_focus_j, key_event, toml>>
    /\ fs' = out.fs
    /\ IF out.panic
       THEN /\ panicked' = TRUE
            /\ UNCHANGED <<working_directory, entries, mode, selected, cursor_offset,
                           current_entry_length, edit_buffer, selection_start, errors,
                           clipboard, result, panels>>
       ELSE /\ panicked' = FALSE
            /\ Store(Render(IF trailing THEN refresh_cursor(out.s) ELSE out.s))
            /\ clipboard' = out.clipboard
            /\ result' = [quit |-> out.quit, should_refresh |-> out.should_refresh]
            /\ panels' = refresh_others(panels, panel_focus_i, panel_focus_j, out.fs, o,
                                        out.should_refresh)

\* the entries below the given paths, the paths included
Below(f, paths) == {q \in DOMAIN f : \E p \in paths : IsPrefix(p, q)}
Range(seq) == {seq[i] : i \in 1..Len(seq)}
ListCall(dir) == {<<"read_dir", dir>>}
\* the calls a recursive copy of the given sources makes
CopyCalls(f, paths) ==
    {<<"copy", p>> : p \in {q \in Below(f, paths) : IsFile(f, q)}}
    \cup {<<op, p>> : op \in {"mkdir", "read_dir"},
                      p \in {q \in Below(f, paths) : IsDir(f, q)}}
\* the calls a removal of the given entries makes
RemoveCalls(f, paths) ==
    {<<"remove_file", p>> : p \in {q \in paths : IsFile(f, q)}}
    \cup {<<op, p>> : op \in {"read_dir", "remove_dir", "remove_dir_all"},
                      p \in {q \in paths : IsDir(f, q)}}
\* the places of a directory a new name can be enumerated at
Slots(f, dir) == IF IsDir(f, dir) THEN 0..Len(f[dir].ch) ELSE {0}
\* what the environment decides for one key event: the calls that fail, and
\* where read_dir enumerates a created name (at the end when a call fails)
Inputs(calls, dir) ==
    {[o |-> NoFault, slot |-> k] : k \in Slots(fs, dir)}
    \cup {[o |-> o, slot |-> Len(entries)] : o \in Oracles(calls) \ {NoFault}}

\* a dismissal that also leaves Insert mode
clear_and_leave(s) == [s EXCEPT !.errors = <<>>, !.mode = "Normal"]

\* Vec::clear on the error queue
clear(s) == [s EXCEPT !.errors = <<>>]

\* errors pending: a key press dismisses them and does nothing else
DismissErrors ==
    /\ Running /\ errors # <<>>
    /\ \E ke \in KeysNow : ke.kind = "Press"
    /\ Apply(Out(clear(Self), fs, clipboard, FALSE, FALSE, FALSE),
             "dismiss", FALSE, NoFault, NoTyping)

\* errors pending: an event that is no press is ignored
IgnoredWhileErrors ==
    /\ Running /\ errors # <<>>
    /\ \E ke \in KeysNow : ke.kind # "Press"
    /\ Apply(Out(Self, fs, clipboard, FALSE, FALSE, FALSE), "ignored", FALSE,
             NoFault, NoTyping)

DirWalk ==
    /\ Normal("dir_walk")
    /\ \E o \in Oracles(IF IsSome(selected) /\ Unwrap(selected) < Len(entries)
                        THEN ListCall(entries[Unwrap(selected) + 1]) ELSE {}) :
        Apply(dir_walk(Self, fs, clipboard, o), "dir_walk", TRUE, o, NoTyping)

DirUp ==
    /\ Normal("dir_up")
    /\ \E o \in Oracles(IF IsSome(Parent(working_directory))
                        THEN ListCall(Unwrap(Parent(working_directory))) ELSE {}) :
        Apply(dir_up(Self, fs, clipboard, o), "dir_up", TRUE, o, NoTyping)

MoveUp ==
    Normal("up") /\ Apply(move_up(Self, fs, clipboard), "up", TRUE, NoFault, NoTyping)
SelectUp ==
    /\ Normal("select_up")
    /\ Apply(select_up(Self, fs, clipboard), "select_up", TRUE, NoFault, NoTyping)
MoveDown ==
    Normal("down") /\ Apply(move_down(Self, fs, clipboard), "down", TRUE, NoFault, NoTyping)
SelectDown ==
    /\ Normal("select_down")
    /\ Apply(select_down(Self, fs, clipboard), "select_down", TRUE, NoFault, NoTyping)
MoveLeft ==
    Normal("left") /\ Apply(move_left(Self, fs, clipboard), "left", TRUE, NoFault, NoTyping)
MoveRight ==
    /\ Normal("right")
    /\ Apply(move_right(Self, fs, clipboard), "right", TRUE, NoFault, NoTyping)

\* the new-file action; a name typed from here on is followed in `typing`
NewFile ==
    /\ Normal("new_file")
    /\ \E in \in Inputs({<<"create", new_path(fs, Append(working_directory, NEWFILE))>>}
                        \cup ListCall(working_directory), working_directory) :
        Apply(new_file(Self, fs, clipboard, in.o, in.slot), "new_file", TRUE, in.o,
              [on |-> in.o = NoFault,
               placeholder |-> new_path(fs, Append(working_directory, NEWFILE)),
               name |-> <<>>])

NewDirectory ==
    /\ Normal("new_directory")
    /\ \E in \in Inputs({<<"mkdir", new_path(fs, Append(working_directory, NEWDIR))>>}
                        \cup ListCall(working_directory), working_directory) :
        Apply(new_directory(Self, fs, clipboard, in.o, in.slot), "new_directory", TRUE,
              in.o, NoTyping)

Duplicate ==
    /\ Normal("duplicate")
    /\ \E in \in Inputs(CopyCalls(fs, Range(entries)) \cup ListCall(working_directory),
                        working_directory) :
        Apply(duplicate(Self, fs, clipboard, in.o, in.slot), "duplicate", TRUE,
              in.o, NoTyping)

Copy ==
    Normal("copy") /\ Apply(copy(Self, fs, clipboard), "copy", TRUE, NoFault, NoTyping)

Paste ==
    /\ Normal("paste")
    /\ \E in \in Inputs(CopyCalls(fs, Range(clipboard)) \cup ListCall(working_directory),
                        working_directory) :
        Apply(paste(Self, fs, clipboard, in.o, in.slot), "paste", TRUE, in.o, NoTyping)

Remove ==
    /\ Normal("remove")
    /\ \E o \in Oracles(RemoveCalls(fs, Range(entries)) \cup ListCall(working_directory)) :
        Apply(remove(Self, fs, clipboard, o), "remove", TRUE, o, NoTyping)

InsertMode ==
    /\ Normal("insert_mode")
    /\ Apply(insert_mode(Self, fs, clipboard), "insert_mode", TRUE, NoFault, NoTyping)

\* quit returns before the trailing refresh_cursor
Quit ==
    /\ Normal("quit")
    /\ Apply(Out(Self, fs, clipboard, FALSE, TRUE, FALSE), "quit", FALSE, NoFault, NoTyping)

\* a key no Normal-mode branch takes
Unbound ==
    /\ Normal("none")
    /\ Apply(Out(Self, fs, clipboard, FALSE, FALSE, FALSE), "none", TRUE, NoFault, NoTyping)

Commit ==
    /\ Insert("commit")
    /\ \E in \in Inputs(IF IsSome(selected) /\ Unwrap(selected) < Len(entries)
                        THEN {<<"rename", entries[Unwrap(selected) + 1]>>} ELSE {},
                        working_directory) :
        Apply(commit(Self, fs, clipboard, in.o, in.slot), "commit", FALSE, in.o, typing)

Backspace ==
    /\ Insert("backspace")
    /\ Apply(backspace(Self, fs, clipboard), "backspace", FALSE, NoFault, NoTyping)

TypeChar ==
    /\ Running /\ errors = <<>> /\ mode = "Insert"
    /\ Len(edit_buffer) < MaxBuf
    /\ \E ke \in KeysNow :
        /\ InsertBranch(ke) = "char"
        /\ Apply(type_char(Self, fs, clipboard, ke.code.c), "char", FALSE, NoFault,
                 IF typing.on THEN [typing EXCEPT !.name = Append(@, ke.code.c)]
                 ELSE NoTyping)

\* an event no Insert-mode branch takes
InsertIgnored ==
    /\ Insert("none")
    /\ Apply(Out(Self, fs, clipboard, FALSE, FALSE, FALSE), "ignored", FALSE,
             NoFault, NoTyping)

Next ==
    \/ DismissErrors \/ IgnoredWhileErrors
    \/ DirWalk \/ DirUp
    \/ MoveUp \/ SelectUp \/ MoveDown \/ SelectDown \/ MoveLeft \/ MoveRight
    \/ NewFile \/ NewDirectory \/ Duplicate \/ Copy \/ Paste \/ Remove
    \/ InsertMode \/ Quit \/ Unbound
    \/ Commit \/ Backspace \/ TypeChar \/ InsertIgnored

Spec == Init /\ [][Next]_vars

(***************************************************************************)
(* The single-panel loop of main.rs (run, on Editor).  Its helpers and the *)
(* bodies of its branches repeat those of window.rs word for word, with    *)
(* `ed` for `self` and a local `errors`; they are the operators above.     *)
(* What main.rs writes differently is the selection after new-file and     *)
(* new-directory, the quit, and the absence of a PanelFrameData.           *)
(***************************************************************************)
\* a new-file loop that selects the created entry and leaves the mode alone
EdSelectOnly(s, created) ==
    IF \E i \in 1..Len(s.entries) : s.entries[i] = created
    THEN [s EXCEPT !.selected = Some((CHOOSE i \in 1..Len(s.entries) :
                                          s.entries[i] = created) - 1)]
    ELSE s

\* the loop over entries records the last index that holds the created path
\* in `index`; `if let Some(i) = index` then switches to Insert
EdSelectCreated(s, created) ==
    LET found == {i \in 0..(Len(s.entries) - 1) : s.entries[i + 1] = created} IN
    IF found # {}
    THEN [s EXCEPT !.selected = Some(CHOOSE i \in found : \A j \in found : j <= i),
                   !.mode = "Insert", !.edit_buffer = <<>>, !.cursor_offset = 0]
    ELSE s

ed_new_file(s, f, c, o, slot) ==
    LET file == new_path(f, Append(s.working_directory, NEWFILE))
        r == FsCreateFile(f, Forced(o, "create", file), file, slot)
    IN  IF r.err # "Ok"
        THEN Out(Push(s, CreateFileError(r.err, file)), f, c, FALSE, FALSE, FALSE)
        ELSE Out(EdSelectCreated(read_working_dir(s, r.fs, o), file),
                 r.fs, c, FALSE, FALSE, FALSE)

ed_new_directory(s, f, c, o, slot) ==
    LET dir == new_path(f, Append(s.working_directory, NEWDIR))
        r == FsCreateDir(f, Forced(o, "mkdir", dir), dir, slot)
    IN  IF r.err # "Ok"
        THEN Out(Push(s, CreateDirError(r.err, dir)), f, c, FALSE, FALSE, FALSE)
        ELSE Out(EdSelectCreated(read_working_dir(s, r.fs, o), dir),
                 r.fs, c, FALSE, FALSE, FALSE)

\* the Normal arm of the loop: the branch the key takes, then refresh_cursor
\* unless the branch was quit, which returns from run
ed_normal(s, f, c, ke, o, slot) ==
    IF ke = config.quit
       /\ ke \notin {config.dir_walk, config.dir_up, config.up, config.select_up,
                     config.down, config.select_down, config.left, config.right,
                     config.new_file, config.new_directory, config.paste,
                     config.insert_mode}
       /\ ~(ke \in {config.duplicate, config.copy, config.remove} /\ Len(s.entries) > 0)
    THEN Out(s, f, c, FALSE, TRUE, FALSE)
    ELSE
    LET out ==
            IF ke = config.dir_walk THEN dir_walk(s, f, c, o)
            ELSE IF ke = config.dir_up THEN dir_up(s, f, c, o)
            ELSE IF ke = config.up THEN move_up(s, f, c)
            ELSE IF ke = config.select_up THEN select_up(s, f, c)
            ELSE IF ke = config.down THEN move_down(s, f, c)
            ELSE IF ke = config.select_down THEN select_down(s, f, c)
            ELSE IF ke = config.left THEN move_left(s, f, c)
            ELSE IF ke = config.right THEN move_right(s, f, c)
            ELSE IF ke = config.new_file THEN ed_new_file(s, f, c, o, slot)
            ELSE IF ke = config.new_directory THEN ed_new_directory(s, f, c, o, slot)
            ELSE IF ke = config.duplicate /\ Len(s.entries) > 0
                 THEN duplicate(s, f, c, o, slot)
            ELSE IF ke = config.copy /\ Len(s.entries) > 0 THEN copy(s, f, c)
            ELSE IF ke = config.paste THEN paste(s, f, c, o, slot)
            ELSE IF ke = config.remove /\ Len(s.entries) > 0 THEN remove(s, f, c, o)
            ELSE IF ke = config.insert_mode THEN insert_mode(s, f, c)
            ELSE Out(s, f, c, FALSE, FALSE, FALSE)
    IN  IF out.panic THEN out ELSE [out EXCEPT !.s = refresh_cursor(@)]

\* the Insert arm of the loop
ed_insert(s, f, c, ke, o, slot) ==
    IF ke = config.normal_mode \/ (ke.code = Named("Enter") /\ ke.kind = "Press")
    THEN commit(s, f, c, o, slot)
    ELSE IF ke.kind = "Press"
    THEN IF ke.code = Named("Backspace") THEN backspace(s, f, c)
         ELSE IF ke.code.t = "Char" THEN type_char(s, f, c, ke.code.c)
         ELSE Out(s, f, c, FALSE, FALSE, FALSE)
    ELSE Out(s, f, c, FALSE, FALSE, FALSE)

\* what one key event does in run: the error gate, then the arm of the mode
run_key(s, f, c, ke, o, slot) ==
    IF Len(s.errors) > 0
    THEN IF ke.kind = "Press" THEN Out(clear(s), f, c, FALSE, FALSE, FALSE)
         ELSE Out(s, f, c, FALSE, FALSE, FALSE)
    ELSE IF s.mode = "Normal" THEN ed_normal(s, f, c, ke, o, slot)
    ELSE ed_insert(s, f, c, ke, o, slot)

\* the user creates a file or a directory while the environment fails
\* calls, and presses or releases a key
CreateThenDismiss ==
    <<{config.new_file, config.new_directory},
      {Press(Named("Enter"), "NONE"), KeyEvent(Named("Enter"), "NONE", "Release"),
       config.new_file}>>
\* the runs the two loops are compared on: every key at hand and the
\* sessions above on a filesystem that answers every call, and creations
\* that the environment fails
EditorSessions ==
    {[script |-> AnyKey, faults |-> 0], [script |-> CreateThenDismiss, faults |-> MaxFaults]}
    \cup {x \in Sessions : x.faults = 0}
EditorInit == InitIn(EditorSessions) /\ OnePanel
EditorSpec == EditorInit /\ [][Next]_vars

(***************************************************************************)
(* The window: a grid of panels and the focused coordinate.  The accessor  *)
(* is the one of window.rs; the window-level actions (focus move, split,   *)
(* close) are bound in config.rs and their handling follows section 4.4 of *)
(* the specification.  Indices are zero-based as in the code.              *)
(***************************************************************************)
\* Vec::insert and Vec::remove at a zero-based index
VecInsert(v, k, x) == SubSeq(v, 1, k) \o <<x>> \o SubSeq(v, k + 1, Len(v))
VecRemove(v, k) == SubSeq(v, 1, k) \o SubSeq(v, k + 2, Len(v))

\* the window as a record of its fields
Window == [panels |-> panels, panel_focus_i |-> panel_focus_i,
           panel_focus_j |-> panel_focus_j]

\* Window::panel: indexing panics outside the grid
panel_transposed(w) ==
    IF w.panel_focus_j < Len(w.panels)
       /\ w.panel_focus_i < Len(w.panels[w.panel_focus_j + 1])
    THEN [panic |-> FALSE,
          panel |-> w.panels[w.panel_focus_j + 1][w.panel_focus_i + 1]]
    ELSE [panic |-> TRUE, panel |-> Pane(0, <<>>)]
panel(w) ==
    IF w.panel_focus_i < Len(w.panels)
       /\ w.panel_focus_j < Len(w.panels[w.panel_focus_i + 1])
    THEN [panic |-> FALSE,
          panel |-> w.panels[w.panel_focus_i + 1][w.panel_focus_j + 1]]
    ELSE [panic |-> TRUE, panel |-> Pane(0, <<>>)]

\* the focused row
FocusedRow(w) == w.panels[w.panel_focus_i + 1]

\* focus moves to the adjacent row, the column clamped into the target row
FocusRow(w, i) ==
    [w EXCEPT !.panel_focus_i = i,
              !.panel_focus_j = Min(@, Len(w.panels[i + 1]) - 1)]
pane_up(w) ==
    IF w.panel_focus_i > 0 THEN FocusRow(w, w.panel_focus_i - 1) ELSE w
pane_down(w) ==
    IF w.panel_focus_i + 1 < Len(w.panels) THEN FocusRow(w, w.panel_focus_i + 1) ELSE w
\* focus moves to the adjacent column of the focused row
pane_left(w) ==
    IF w.panel_focus_j > 0 THEN [w EXCEPT !.panel_focus_j = @ - 1] ELSE w
pane_right(w) ==
    IF w.panel_focus_j + 1 < Len(FocusedRow(w))
    THEN [w EXCEPT !.panel_focus_j = @ + 1] ELSE w

\* a new single-panel row above or below the focused row takes the focus
SplitRow(w, i, p) ==
    [w EXCEPT !.panels = VecInsert(@, i, <<p>>),
              !.panel_focus_i = i,
              !.panel_focus_j = 0]
split_pane_up(w, p) == SplitRow(w, w.panel_focus_i, p)
split_pane_down(w, p) == SplitRow(w, w.panel_focus_i + 1, p)
\* a new panel before or after the focused column takes the focus
SplitColumn(w, j, p) ==
    [w EXCEPT !.panels[w.panel_focus_i + 1] = VecInsert(@, j, p),
              !.panel_focus_j = j]
split_pane_left(w, p) == SplitColumn(w, w.panel_focus_j, p)
split_pane_right(w, p) == SplitColumn(w, w.panel_focus_j + 1, p)

\* close: the focused panel leaves its row; or, alone in its row, the row
\* leaves the grid; the last panel of the window stays
close_keeping_focus(w) ==
    IF Len(FocusedRow(w)) > 1
    THEN [w EXCEPT !.panels[w.panel_focus_i + 1] = VecRemove(@, w.panel_focus_j)]
    ELSE IF Len(w.panels) > 1
    THEN [w EXCEPT !.panels = VecRemove(@, w.panel_focus_i)]
    ELSE w
close_active_pane(w) ==
    IF Len(FocusedRow(w)) > 1
    THEN [w EXCEPT !.panels[w.panel_focus_i + 1] = VecRemove(@, w.panel_focus_j),
                   !.panel_focus_j = SatSub(@, 1)]
    ELSE IF Len(w.panels) > 1
    THEN [w EXCEPT !.panels = VecRemove(@, w.panel_focus_i),
                   !.panel_focus_i = SatSub(@, 1)]
    ELSE w

\* the window handles one window-level key event; the panels are not given
\* the event.  The loop then reads the focused panel, to draw it and to hand
\* it the next event: outside the grid that read aborts the process
WindowStep(label, w) ==
    /\ ~panicked /\ nkeys < MaxWindowOps
    /\ last' = label
    /\ nkeys' = nkeys + 1
    /\ panels' = w.panels
    /\ panel_focus_i' = w.panel_focus_i
    /\ panel_focus_j' = w.panel_focus_j
    /\ panicked' = panel(w).panic
    /\ UNCHANGED <<fs, working_directory, entries, mode, selected, cursor_offset,
                   current_entry_length, edit_buffer, selection_start, errors,
                   clipboard, result, fault, typing, session, key_event, toml>>

\* the panel a split makes: seeded with the focused panel's directory
Seeded == Pane(nkeys + 1, panel(Window).panel.working_directory)

PaneUp == WindowStep("pane_up", pane_up(Window))
PaneDown == WindowStep("pane_down", pane_down(Window))
PaneLeft == WindowStep("pane_left", pane_left(Window))
PaneRight == WindowStep("pane_right", pane_right(Window))
SplitPaneUp == WindowStep("split_pane_up", split_pane_up(Window, Seeded))
SplitPaneDown == WindowStep("split_pane_down", split_pane_down(Window, Seeded))
SplitPaneLeft == WindowStep("split_pane_left", split_pane_left(Window, Seeded))
SplitPaneRight == WindowStep("split_pane_right", split_pane_right(Window, Seeded))
CloseActivePane == WindowStep("close_active_pane", close_active_pane(Window))

WindowInit ==
    /\ InitIn({[script |-> AnyKey, faults |-> MaxFaults]})
    /\ OnePanel

WindowNext ==
    \/ PaneUp \/ PaneDown \/ PaneLeft \/ PaneRight
    \/ SplitPaneUp \/ SplitPaneDown \/ SplitPaneLeft \/ SplitPaneRight
    \/ CloseActivePane

WindowSpec == WindowInit /\ [][WindowNext]_vars

(***************************************************************************)
(* The window with several panels open: key events go to the focused panel *)
(* and the other panels keep their listing until the window refreshes      *)
(* them (section 4.4 of the specification).                                *)
(***************************************************************************)
\* a panel opened on /, one on /a with the cursor inside the second name,
\* one on /a/d with the cursor inside its only name
OnRoot == NewPanel(<<>>, InitFs)
OnA == refresh_cursor([scroll_down_by(NewPanel(DirA, InitFs)) EXCEPT !.cursor_offset = 1])
OnD == [NewPanel(Append(DirA, <<"d">>), InitFs) EXCEPT !.cursor_offset = 1]

\* two rows of two panels, the focused one at (0, 0) on /a
RefreshInit ==
    /\ InitIn(EditorSessions)
    /\ key_event = Binding(config.quit)
    /\ panels = <<<<Pane(0, DirA), Other(1, OnRoot)>>,
                  <<Other(2, OnA), Other(3, OnD)>>>>

RefreshSpec == RefreshInit /\ [][Next]_vars

(***************************************************************************)
(* The configuration file (config.rs).  A binding is given as a string     *)
(* "mods-key" or "key"; a str is the sequence of its characters.           *)
(***************************************************************************)
\* longest modifier prefix a configuration file gives
MaxMods == 2

\* Value::as_str
as_str(value) == IF value.kind = "String" THEN Some(value.str) ELSE None

\* str::split_once("-"): the parts before and after the first "-"
split_once(v) ==
    LET at == {i \in 1..Len(v) : v[i] = "-"} IN
    IF at = {} THEN None
    ELSE LET i == CHOOSE i \in at : \A j \in at : i <= j IN
         Some([mod_str |-> SubSeq(v, 1, i - 1), code |-> SubSeq(v, i + 1, Len(v))])

\* str::contains(char)
contains(str, c) == \E i \in 1..Len(str) : str[i] = c

Digits == <<"0", "1", "2", "3", "4", "5", "6", "7", "8", "9">>
IsDigit(c) == \E d \in 1..10 : Digits[d] = c
DigitOf(c) == (CHOOSE d \in 1..10 : Digits[d] = c) - 1
RECURSIVE Decimal(_)
Decimal(str) ==
    IF str = <<>> THEN 0
    ELSE 10 * Decimal(SubSeq(str, 1, Len(str) - 1)) + DigitOf(str[Len(str)])
\* str::parse::<u8>: an optional "+", then digits of a number up to 255
parse_u8(str) ==
    LET digits == IF str # <<>> /\ str[1] = "+" THEN Tail(str) ELSE str IN
    IF digits = <<>> \/ \E i \in 1..Len(digits) : ~IsDigit(digits[i]) THEN None
    ELSE IF Decimal(digits) > 255 THEN None
    ELSE Some(Decimal(digits))

\* KeyCode::F(n)
F(n) == [t |-> "F", c |-> "", n |-> n]
\* the key codes key_code_from_str knows by name
Spelled ==
    [Backspace |-> <<"B", "a", "c", "k", "s", "p", "a", "c", "e">>,
     Enter     |-> <<"E", "n", "t", "e", "r">>,
     Left      |-> <<"L", "e", "f", "t">>,
     Right     |-> <<"R", "i", "g", "h", "t">>,
     Up        |-> <<"U", "p">>,
     Down      |-> <<"D", "o", "w", "n">>,
     Home      |-> <<"H", "o", "m", "e">>,
     End       |-> <<"E", "n", "d">>,
     PageUp    |-> <<"P", "a", "g", "e", "U", "p">>,
     PageDown  |-> <<"P", "a", "g", "e", "D", "o", "w", "n">>,
     Tab       |-> <<"T", "a", "b">>,
     BackTab   |-> <<"B", "a", "c", "k", "T", "a", "b">>,
     Delete    |-> <<"D", "e", "l", "e", "t", "e">>,
     Insert    |-> <<"I", "n", "s", "e", "r", "t">>,
     Esc       |-> <<"E", "s", "c">>]

key_code_from_str(s) ==
    IF Len(s) = 1 THEN Some(Char(s[1]))
    ELSE IF Len(s) > 1 /\ s[1] = "F" /\ IsSome(parse_u8(Tail(s)))
    THEN Some(F(parse_u8(Tail(s))[1]))
    ELSE IF \E k \in DOMAIN Spelled : Spelled[k] = s
    THEN Some(Named(CHOOSE k \in DOMAIN Spelled : Spelled[k] = s))
    ELSE None

\* the binding ke after the file's value for its action is read
key_event_from_toml(ke, value) ==
    IF IsSome(as_str(value))
    THEN LET v == as_str(value)[1]
             split == split_once(v)
             mod_str == IF IsSome(split) THEN split[1].mod_str ELSE <<>>
             modifiers ==
                 IF IsSome(split)
                 THEN (IF contains(mod_str, "c") \/ contains(mod_str, "C")
                       THEN {"CONTROL"} ELSE {})
                      \cup (IF contains(mod_str, "s") \/ contains(mod_str, "S")
                            THEN {"SHIFT"} ELSE {})
                      \cup (IF contains(mod_str, "a") \/ contains(mod_str, "S")
                            THEN {"ALT"} ELSE {})
                 ELSE {}
             code == IF IsSome(split) THEN key_code_from_str(split[1].code)
                     ELSE key_code_from_str(v)
         IN IF IsSome(code) THEN [code |-> code[1], modifiers |-> modifiers] ELSE ke
    ELSE ke

\* the modifier prefixes a file gives: up to MaxMods modifier letters
ModChars == {"c", "C", "s", "S", "a", "A"}
ModStrs == UNION {[1..n -> ModChars] : n \in 0..MaxMods}
\* the key parts: a character, the dash, named keys, function keys, and
\* strings that name no key
KeyStrs ==
    {<<"x">>, <<"-">>, Spelled.Enter, Spelled.Esc, <<"F", "1">>,
     <<"F", "x">>, <<"x", "x">>, <<>>}
Strs == KeyStrs \cup {m \o <<"-">> \o k : m \in ModStrs, k \in KeyStrs}
\* what a file holds for an action: a string or a value of another type
Values == {[kind |-> "String", str |-> v] : v \in Strs} \cup {[kind |-> "Integer", str |-> <<>>]}

\* Config::from_toml finds a value for an action and reads it
FromToml ==
    /\ last = "start"
    /\ \E value \in Values :
        /\ toml' = value
        /\ key_event' = key_event_from_toml(key_event, value)
    /\ last' = "from_toml"
    /\ UNCHANGED <<fs, working_directory, entries, mode, selected, cursor_offset,
                   current_entry_length, edit_buffer, selection_start, errors,
                   clipboard, result, panicked, nkeys, fault, typing, session,
                   panels, panel_focus_i, panel_focus_j>>

\* the binding starts as the default of one of the actions
ConfigInit ==
    /\ InitIn({[script |-> AnyKey, faults |-> 0]})
    /\ panels = <<<<Pane(0, DirA)>>>>
    /\ key_event \in {Binding(config[a]) : a \in DOMAIN config}

ConfigSpec == ConfigInit /\ [][FromToml]_vars

(***************************************************************************)
(* The claims.  A step of the machine handles one key event, so a claim    *)
(* about what an event does is a property of every step; `last` in the     *)
(* state after the step names the branch the event took and `fault` the    *)
(* calls the environment failed in it.                                     *)
(***************************************************************************)
\* the characters the specification reserves
Reserved == {"\\", "/", ":", "*", "?", "\"", "<", ">", "|"}
HasReserved(str) == \E i \in 1..Len(str) : str[i] \in Reserved

\* an entry is under the cursor; the entry; the target of a commit
HasSel == IsSome(selected) /\ Unwrap(selected) < Len(entries)
Sel == entries[Unwrap(selected) + 1]
Target == Join(working_directory, edit_buffer)

\* the step handles a commit key in Insert mode with no error pending
CommitStep == errors = <<>> /\ mode = "Insert" /\ last' = "commit"
\* the step handles a new-file or new-directory key in Normal mode
CreateStep == errors = <<>> /\ mode = "Normal" /\ last' \in {"new_file", "new_directory"}
\* the environment fails no call of the step
NoCallFails == fault'.deny = {}
\* the listing of directory dir in filesystem f
Listing(f, dir) == [i \in 1..Len(f[dir].ch) |-> Append(dir, f[dir].ch[i])]
\* name is stem followed by zero or more ".1"
RECURSIVE IsDotted(_, _)
IsDotted(stem, name) ==
    \/ name = stem
    \/ /\ Len(name) >= Len(stem) + Len(Suffix)
       /\ SubSeq(name, Len(name) - Len(Suffix) + 1, Len(name)) = <<".", "1">>
       /\ IsDotted(stem, SubSeq(name, 1, Len(name) - Len(Suffix)))
\* a rejected commit: nothing renamed, one error, still editing the same text
Rejected ==
    /\ fs' = fs /\ entries' = entries
    /\ Len(errors') = 1
    /\ mode' = "Insert" /\ edit_buffer' = edit_buffer

\* C1: while the error queue is non-empty a key press empties the queue and
\* changes nothing else (mode, working directory, entries, cursor index,
\* cursor offset, selection anchor, edit buffer, clipboard, filesystem; no
\* quit), whatever the key is bound to, and an event that is no press
\* changes nothing at all.
C1_ErrorsGateOneKeyPress ==
    [][errors # <<>> =>
        /\ last' \in {"dismiss", "ignored"}
        /\ UNCHANGED <<mode, working_directory, entries, selected, cursor_offset,
                       selection_start, edit_buffer, clipboard, fs>>
        /\ ~result'.quit
        /\ last' = "dismiss" => errors' = <<>>
        /\ last' = "ignored" => UNCHANGED <<errors, current_entry_length>>]_vars
\* an error raised in Insert mode has been dismissed
C1_Witness == last = "dismiss" /\ mode = "Insert" /\ errors = <<>> /\ edit_buffer # <<>>

\* C2: a commit of a non-empty buffer without reserved characters whose
\* target does not exist renames the selected entry to the target; when the
\* rename succeeds the entry's path in entries is replaced in place, the rest
\* of entries is as before, the mode is Normal, the buffer is empty and
\* content-changed is reported.
C2_RenameInPlace ==
    [][(/\ CommitStep /\ HasSel
        /\ edit_buffer # <<>> /\ ~HasReserved(edit_buffer)
        /\ Target \notin DOMAIN fs
        /\ NoCallFails /\ FsRename(fs, "Ok", Sel, Target, 0).err = "Ok")
       =>
        /\ Sel \notin DOMAIN fs' /\ Target \in DOMAIN fs'
        /\ fs'[Target].kind = fs[Sel].kind /\ fs'[Target].data = fs[Sel].data
        /\ entries' = [entries EXCEPT ![Unwrap(selected) + 1] = Target]
        /\ selected' = selected
        /\ mode' = "Normal" /\ edit_buffer' = <<>>
        /\ result'.should_refresh]_vars
\* a commit has renamed the file under the cursor
C2_Witness ==
    /\ last = "commit" /\ result.should_refresh /\ mode = "Normal" /\ errors = <<>>
    /\ HasSel /\ IsFile(fs, Sel) /\ Dirname(Sel) = working_directory

C4_CollisionRejected ==
    [][(/\ CommitStep /\ HasSel /\ edit_buffer # <<>>
        /\ Target \in DOMAIN fs /\ Target # Sel)
       => Rejected]_vars
\* a name without reserved characters that names another entry has been rejected
C4_Witness ==
    /\ last = "commit" /\ mode = "Insert" /\ Len(errors) = 1
    /\ HasSel /\ ~HasReserved(edit_buffer) /\ Target \in DOMAIN fs /\ Target # Sel

\* C5 as stated: a commit of an empty buffer is rejected: the mode stays
\* Insert and an error is pushed.
C5_EmptyRejected ==
    [][(CommitStep /\ edit_buffer = <<>>) => (mode' = "Insert" /\ Len(errors') >= 1)]_vars
\* C5, amended: a commit of an empty buffer renames nothing and pushes no
\* error; the panel returns to Normal mode with the entries as they were.
C5_EmptyLeavesInsert ==
    [][(CommitStep /\ edit_buffer = <<>>) =>
        /\ mode' = "Normal" /\ errors' = <<>> /\ edit_buffer' = <<>>
        /\ fs' = fs /\ entries' = entries /\ selected' = selected
        /\ ~result'.should_refresh]_vars
\* a file has been created and the empty buffer committed at once
C5_Witness ==
    /\ last = "commit" /\ typing.on /\ typing.name = <<>>
    /\ mode = "Normal" /\ errors = <<>>
    /\ HasSel /\ Sel = typing.placeholder

\* C6: when the rename of a commit fails at the filesystem, the mapped
\* error is pushed and the panel remains in Insert mode.
C6_RenameFailureStaysInsert ==
    [][(/\ CommitStep /\ HasSel
        /\ edit_buffer # <<>> /\ ~HasReserved(edit_buffer)
        /\ Target \notin DOMAIN fs
        /\ <<"rename", Sel>> \in fault'.deny)
       =>
        /\ Len(errors') = 1
        /\ errors'[1].type = (IF fault'.kind = "NotFound" THEN "PathNotFound"
                              ELSE IF fault'.kind = "PermissionDenied"
                              THEN "PermissionDenied" ELSE "Message")
        /\ mode' = "Insert"]_vars

\* C7: a commit of a buffer equal to the file name of the selected entry is
\* a no-op: no error, no change of the filesystem or of entries, and the
\* mode returns to Normal.
C7_SameNameIsNoOp ==
    [][(CommitStep /\ HasSel /\ edit_buffer = EntryName(Sel)) =>
        /\ errors' = <<>> /\ fs' = fs /\ entries' = entries
        /\ mode' = "Normal"]_vars

\* C8: a new-file (new-directory) action none of whose calls fails creates
\* an empty file (directory) in the working directory at a path that did
\* not exist, named NEWFILE (NEWDIR) followed by zero or more ".1", re-reads
\* the listing, puts the cursor on the created entry and leaves the panel in
\* Insert mode with an empty buffer and cursor_offset 0.
C8_CreateThenName ==
    [][(/\ CreateStep /\ NoCallFails
        /\ IsDir(fs, working_directory) /\ Len(working_directory) < MaxDepth)
       =>
        \E p \in DOMAIN fs' :
            /\ p \notin DOMAIN fs
            /\ DOMAIN fs' = DOMAIN fs \cup {p}
            /\ \A q \in DOMAIN fs \ {working_directory} : fs'[q] = fs[q]
            /\ Dirname(p) = working_directory
            /\ IsDotted(IF last' = "new_file" THEN NEWFILE ELSE NEWDIR, Basename(p))
            /\ fs'[p].kind = (IF last' = "new_file" THEN "file" ELSE "dir")
            /\ fs'[p].data = 0 /\ fs'[p].ch = <<>>
            /\ working_directory' = working_directory
            /\ entries' = Listing(fs', working_directory)
            /\ IsSome(selected') /\ Unwrap(selected') < Len(entries')
            /\ entries'[Unwrap(selected') + 1] = p
            /\ mode' = "Insert" /\ edit_buffer' = <<>> /\ cursor_offset' = 0
            /\ result'.should_refresh]_vars
\* a second directory has been created beside NEWDIR and waits for its name
C8_Witness ==
    /\ last = "new_directory" /\ mode = "Insert" /\ edit_buffer = <<>>
    /\ HasSel /\ IsDir(fs, Sel) /\ Basename(Sel) = NEWDIR \o Suffix

\* C9: when the creation of a new-file / new-directory action fails, exactly
\* one error is pushed, the mode stays Normal, and entries, the cursor index
\* and the edit buffer are unchanged.
C9_CreateFailure ==
    [][(/\ CreateStep
        /\ \/ \E c \in fault'.deny : c[1] \in {"create", "mkdir"}
           \/ ~IsDir(fs, working_directory)
           \/ Len(working_directory) >= MaxDepth)
       =>
        /\ Len(errors') = 1
        /\ mode' = "Normal"
        /\ entries' = entries /\ selected' = selected /\ edit_buffer' = edit_buffer
        /\ fs' = fs]_vars
\* the creation of a file has been refused
C9_Witness ==
    /\ last = "new_file" /\ mode = "Normal" /\ Len(errors) = 1
    /\ errors[1].type = "PermissionDenied"
    /\ \E c \in fault.deny : c[1] = "create"

\* C10: after the keys new-file, the characters of a valid name N that names
\* nothing in the working directory, and commit, none of whose calls fails,
\* working_directory/N exists, the placeholder NEWFILE path is gone, the
\* panel is in Normal mode with no error, and the cursor is on the entry
\* working_directory/N.
C10_NewFileTypeCommit ==
    [][(/\ typing.on /\ CommitStep /\ NoCallFails
        /\ typing.name # <<>> /\ ~HasReserved(typing.name)
        /\ Append(working_directory, typing.name) \notin DOMAIN fs)
       =>
        /\ Append(working_directory, typing.name) \in DOMAIN fs'
        /\ typing.placeholder \notin DOMAIN fs'
        /\ mode' = "Normal" /\ errors' = <<>>
        /\ IsSome(selected') /\ Unwrap(selected') < Len(entries')
        /\ entries'[Unwrap(selected') + 1] = Append(working_directory, typing.name)]_vars
\* a new file has been given a name of two different characters
C10_Witness ==
    /\ last = "commit" /\ typing.on /\ Len(typing.name) = 2
    /\ typing.name[1] # typing.name[2]
    /\ mode = "Normal" /\ errors = <<>>
    /\ HasSel /\ Sel = Append(working_directory, typing.name)
    /\ IsFile(fs, Sel) /\ typing.placeholder \notin DOMAIN fs

\* the step handles the key of the Normal-mode branch b with no error pending
NormalStep(b) == errors = <<>> /\ mode = "Normal" /\ last' = b

\* C11 as stated: the insert-mode action enters Insert only when entries is
\* non-empty; on entering, the buffer is the file name of the selected entry
\* and cursor_offset is the number of characters of the buffer.
C11_InsertAtBufferEnd ==
    [][NormalStep("insert_mode") =>
        /\ entries = <<>> => mode' = "Normal"
        /\ entries # <<>> =>
            /\ mode' = "Insert"
            /\ HasSel /\ edit_buffer' = EntryName(Sel)
            /\ cursor_offset' = Len(edit_buffer')]_vars
\* C11, amended: the insert-mode action enters Insert exactly when entries is
\* non-empty; with an entry under the cursor the buffer becomes its file
\* name, with none the buffer is left as it is; cursor_offset is not moved to
\* the buffer end: it stays where it was, at most the length of the name.
C11_InsertKeepsOffset ==
    [][NormalStep("insert_mode") =>
        /\ entries = <<>> => (mode' = "Normal" /\ edit_buffer' = edit_buffer)
        /\ entries # <<>> =>
            /\ mode' = "Insert"
            /\ HasSel => /\ edit_buffer' = EntryName(Sel)
                         /\ cursor_offset' = Min(cursor_offset, Len(EntryName(Sel)))
            /\ ~HasSel => UNCHANGED <<edit_buffer, cursor_offset>>
        /\ UNCHANGED <<fs, entries, selected, working_directory, clipboard, errors>>]_vars
\* Insert mode has been entered with the text cursor inside the name
C11_Witness ==
    /\ last = "insert_mode" /\ mode = "Insert"
    /\ HasSel /\ edit_buffer = EntryName(Sel)
    /\ cursor_offset > 0 /\ cursor_offset < Len(edit_buffer)

\* the path whose string is the string of p followed by k times ".1"
RECURSIVE Extended(_, _)
Extended(p, k) ==
    IF k = 0 THEN p ELSE FromStr(ToStr(Extended(p, k - 1)) \o <<".", "1">>)
\* the paths new_path is called with: the entries to copy and the placeholders
NewPathArguments ==
    DOMAIN fs \cup {Append(d, n) : d \in DOMAIN fs, n \in {NEWFILE, NEWDIR}}

\* C12: new_path(p) is p when p does not exist; when p exists it is the
\* string of p extended by k >= 1 copies of ".1", k the least number for
\* which the extended path does not exist; the result never exists.
C12_NewPathIsFirstFree ==
    \A p \in NewPathArguments :
        /\ new_path(fs, p) \notin DOMAIN fs
        /\ p \notin DOMAIN fs => new_path(fs, p) = p
        /\ p \in DOMAIN fs =>
            \E k \in 1..Cardinality(DOMAIN fs) :
                /\ new_path(fs, p) = Extended(p, k)
                /\ \A j \in 1..(k - 1) : Extended(p, j) \in DOMAIN fs
\* a file and its first ".1" both exist, so new_path has to go on to ".1.1"
C12_Witness ==
    /\ last = "duplicate"
    /\ \E p \in DOMAIN fs :
        /\ IsFile(fs, p) /\ Extended(p, 1) \in DOMAIN fs
        /\ new_path(fs, p) = Extended(p, 2)

\* the cursor index after a move up, and after a move down, in a listing
\* that holds the cursor
CursorUp == Some(IF Unwrap(selected) > 0 THEN Unwrap(selected) - 1 ELSE 0)
CursorDown ==
    Some(IF Unwrap(selected) + 1 < Len(entries) THEN Unwrap(selected) + 1
         ELSE Len(entries) - 1)
\* the entries between anchor and cursor, both included
ActiveRange(anchor, cursor) ==
    LET a == IF IsSome(anchor) THEN Unwrap(anchor) ELSE Unwrap(cursor) IN
    Min(a, Unwrap(cursor))..Max(a, Unwrap(cursor))

\* C13: a plain move (up/down) leaves selection_start absent; a select move
\* sets selection_start to the cursor index held before the move when it was
\* absent and leaves it unchanged otherwise, then moves the cursor; so the
\* active range after select moves runs from the anchor to the cursor, and
\* after a plain move it is the new cursor index alone.
C13_MovesAndAnchor ==
    [][/\ (NormalStep("up") \/ NormalStep("down")) =>
            /\ selection_start' = None
            /\ HasSel => ActiveRange(selection_start', selected') = {Unwrap(selected')}
       /\ (NormalStep("select_up") \/ NormalStep("select_down")) =>
            /\ selection_start' = (IF selection_start = None THEN selected
                                   ELSE selection_start)
            /\ HasSel => ActiveRange(selection_start', selected') =
                            (Min(Unwrap(selection_start'), Unwrap(selected'))
                             ..Max(Unwrap(selection_start'), Unwrap(selected')))
       /\ (HasSel /\ (NormalStep("up") \/ NormalStep("select_up"))) =>
            selected' = CursorUp
       /\ (HasSel /\ (NormalStep("down") \/ NormalStep("select_down"))) =>
            selected' = CursorDown
       /\ (\E b \in {"up", "down", "select_up", "select_down"} : NormalStep(b)) =>
            UNCHANGED <<fs, entries, working_directory, mode, edit_buffer, clipboard,
                        errors>>]_vars
\* two moves have left the anchor on the first entry and the cursor on the second
C13_Witness ==
    /\ last = "select_down" /\ nkeys = 2
    /\ selection_start = Some(0) /\ selected = Some(1)

\* C14: with a non-empty listing, copy replaces the clipboard with exactly
\* the entries from min(cursor, anchor) to max(cursor, anchor) in listing
\* order (the selected entry alone without an anchor) and changes neither
\* the filesystem nor entries, the cursor index or selection_start.
C14_CopyTakesActiveRange ==
    [][(NormalStep("copy") /\ entries # <<>> /\ HasSel) =>
        /\ ~panicked'
        /\ clipboard' = [k \in 1..Cardinality(ActiveRange(selection_start, selected)) |->
                            entries[Min(IF IsSome(selection_start)
                                        THEN Unwrap(selection_start)
                                        ELSE Unwrap(selected), Unwrap(selected)) + k]]
        /\ UNCHANGED <<fs, entries, selected, selection_start>>]_vars

\* what exists in f stays as it is in g: files keep their data, directories
\* stay directories
Kept(f, g) ==
    \A q \in DOMAIN f :
        /\ q \in DOMAIN g
        /\ g[q].kind = f[q].kind
        /\ g[q].data = f[q].data
\* the entries of directory dir that g has and f has not
NewIn(f, g, dir) == {q \in DOMAIN g \ DOMAIN f : Len(q) > 0 /\ Dirname(q) = dir}
\* the clipboard entries that are a file or a directory
Live == {k \in 1..Len(clipboard) : clipboard[k] \in DOMAIN fs}

\* C15: paste, none of whose calls fails, creates for every clipboard entry
\* that is a file or a directory one new entry directly under the working
\* directory, of the same kind, named like the source plus zero or more
\* ".1", at a path that did not exist; it overwrites nothing, re-reads the
\* listing and leaves the clipboard as it is.
C15_PasteCreatesOnePerEntry ==
    [][(/\ NormalStep("paste") /\ NoCallFails
        /\ IsDir(fs, working_directory) /\ Len(working_directory) < MaxDepth)
       =>
        /\ ~panicked'
        /\ clipboard' = clipboard
        /\ Kept(fs, fs')
        /\ Cardinality(NewIn(fs, fs', working_directory)) = Cardinality(Live)
        /\ \A k \in Live :
            \E q \in NewIn(fs, fs', working_directory) :
                /\ IsDotted(Basename(clipboard[k]), Basename(q))
                /\ fs'[q].kind = fs[clipboard[k]].kind
                /\ fs'[q].data = fs[clipboard[k]].data
        /\ Live # {} => (entries' = Listing(fs', working_directory)
                         /\ result'.should_refresh)
        /\ working_directory' = working_directory]_vars
\* one copied file has been pasted twice beside itself
C15_Witness ==
    /\ last = "paste" /\ Len(clipboard) = 1 /\ IsFile(fs, clipboard[1])
    /\ Dirname(clipboard[1]) = working_directory
    /\ IsFile(fs, Extended(clipboard[1], 1)) /\ IsFile(fs, Extended(clipboard[1], 2))
    /\ fs[Extended(clipboard[1], 2)].data = fs[clipboard[1]].data
    /\ errors = <<>>

\* the indices duplicate and remove go through
Indices == ActiveRange(selection_start, selected)
\* the copy of path p that g has and f has not: p extended by k >= 1 ".1"
IsCopyOf(f, g, p, q) ==
    /\ \E k \in 1..Cardinality(DOMAIN g) : q = Extended(p, k)
    /\ q \notin DOMAIN f /\ q \in DOMAIN g
    /\ g[q].kind = f[p].kind /\ g[q].data = f[p].data

\* C16: duplicate, none of whose calls fails, on the current listing of the
\* working directory, creates for every entry of the active range one copy
\* beside it, at the entry's path extended by one or more ".1", a path that
\* did not exist; the sources stay as they are; then selection_start is
\* absent and the listing is re-read.
C16_DuplicateCopiesRange ==
    [][(/\ NormalStep("duplicate") /\ NoCallFails /\ IsSome(selected)
        /\ IsDir(fs, working_directory)
        /\ entries = Listing(fs, working_directory)) =>
        /\ ~panicked'
        /\ selection_start' = None
        /\ Kept(fs, fs')
        /\ \A i \in Indices :
            /\ i < Len(entries)
            /\ entries[i + 1] \in DOMAIN fs =>
                \E q \in NewIn(fs, fs', working_directory) :
                    IsCopyOf(fs, fs', entries[i + 1], q)
        /\ Cardinality(NewIn(fs, fs', working_directory))
            = Cardinality({i \in Indices : entries[i + 1] \in DOMAIN fs})
        /\ entries' = Listing(fs', working_directory)
        /\ result'.should_refresh]_vars

\* the removal call made for path p was refused by the environment
Refused(op, p) == <<op, p>> \in fault'.deny
\* p and everything below it is gone
Gone(f, p) == \A q \in DOMAIN f : ~IsPrefix(p, q)
\* what remove does to entry e of the range, by the kind of e
RemovedByKind(e) ==
    /\ IsFile(fs, e) =>
        IF Refused("remove_file", e) THEN fs'[e] = fs[e] /\ Len(errors') > 0
        ELSE e \notin DOMAIN fs'
    /\ (IsDir(fs, e) /\ ~Refused("read_dir", e)) =>
        IF fs[e].ch = <<>>
        THEN IF Refused("remove_dir", e) THEN e \in DOMAIN fs' /\ Len(errors') > 0
             ELSE e \notin DOMAIN fs'
        ELSE IF Refused("remove_dir_all", e) THEN fs'[e] = fs[e] /\ Len(errors') > 0
             ELSE Gone(fs', e)

\* C17: remove handles every entry of the active range by its kind.  A file
\* goes with remove_file; a directory without children goes with remove_dir,
\* so refusing remove_dir_all changes nothing and refusing remove_dir keeps
\* the directory; a directory with children goes with remove_dir_all, and
\* when that call succeeds nothing of it is left.  Afterwards selection_start
\* is absent and the listing is re-read.
C17_RemoveByKind ==
    [][(NormalStep("remove") /\ IsSome(selected)) =>
        /\ ~panicked'
        /\ selection_start' = None
        /\ \A i \in Indices : i < Len(entries) /\ RemovedByKind(entries[i + 1])
        /\ \A q \in DOMAIN fs \ DOMAIN fs' :
            \E i \in Indices : IsPrefix(entries[i + 1], q)
        /\ ((\E i \in Indices : entries[i + 1] \in DOMAIN fs
                /\ ~Refused("read_dir", entries[i + 1]))
            /\ ~Refused("read_dir", working_directory))
           => (entries' = Listing(fs', working_directory) /\ result'.should_refresh)]_vars

\* where the copy of src at dest puts q, a path below src
Reloc(src, dest, q) == dest \o SubSeq(q, Len(src) + 1, Len(q))
\* everything of the tree at src lies at most h names deep
Fits(f, src, h) == \A q \in Below(f, {src}) : Len(q) - Len(src) <= h
\* no call on behalf of q or of a directory between src and q is refused
Unrefused(src, q) ==
    \A a \in DOMAIN fs :
        (IsPrefix(src, a) /\ IsPrefix(a, q)) =>
            \A op \in {"copy", "mkdir", "read_dir"} : ~Refused(op, a)
\* the step has copied the directory src into the directory dest it created
Reproduced(src, dest) ==
    /\ \A q \in DOMAIN fs' : IsPrefix(src, q) => (q \in DOMAIN fs /\ fs'[q] = fs[q])
    /\ \A q \in Below(fs, {src}) :
        Unrefused(src, q) =>
            /\ Reloc(src, dest, q) \in DOMAIN fs'
            /\ fs'[Reloc(src, dest, q)].kind = fs[q].kind
            /\ fs'[Reloc(src, dest, q)].data = fs[q].data
    /\ NoCallFails =>
        Cardinality(Below(fs', {dest})) = Cardinality(Below(fs, {src}))
\* the step is a paste or a duplicate of the one directory src
CopiesOnly(src) ==
    /\ IsDir(fs, src)
    /\ \/ NormalStep("paste") /\ clipboard = <<src>>
       \/ /\ NormalStep("duplicate") /\ HasSel /\ Indices = {Unwrap(selected)}
          /\ Sel = src /\ Dirname(src) = working_directory

\* C18: a paste or duplicate of one directory src creates dest and calls
\* copy_recursively(src, dest).  Every file and directory below src for which
\* no call on the way is refused is then at the same relative path below
\* dest with the same kind, nothing under src is modified, and with no
\* failure dest holds as many files and directories as src.
C18_CopyReproducesTree ==
    [][\A src \in DOMAIN fs :
        \A dest \in NewIn(fs, fs', working_directory) :
            (CopiesOnly(src) /\ ~panicked'
             /\ Fits(fs, src, MaxDepth - Len(dest)))
            => Reproduced(src, dest)]_vars

\* the WalkedError variant an io::ErrorKind is mapped to
VariantOf(kind) ==
    IF kind = "NotFound" THEN "PathNotFound"
    ELSE IF kind = "PermissionDenied" THEN "PermissionDenied"
    ELSE "Message"
\* the one call the environment refuses is the copy of the file a or the
\* creation of the copy of the directory a
OnlyRefused(a) ==
    fault'.deny = {<<IF IsFile(fs, a) THEN "copy" ELSE "mkdir", a>>}
\* the step copies the directory src to a place outside src that has room
CopiesAside(src, dest) ==
    /\ CopiesOnly(src) /\ ~panicked'
    /\ ~IsPrefix(src, working_directory)
    /\ Fits(fs, src, MaxDepth - Len(dest))

\* C19: copy_recursively does not abort on a failure.  When the copy of one
\* file below src, or the creation of one directory of the copy, fails, the
\* error queue receives exactly one error, of the variant of the failure
\* (PathNotFound, PermissionDenied, Message otherwise), and every entry of
\* src that is not the failed one or below it is copied all the same.
C19_CopyGoesOnAfterFailure ==
    [][\A src \in DOMAIN fs :
        \A dest \in NewIn(fs, fs', working_directory) :
            \A a \in Below(fs, {src}) \ {src} :
                (CopiesAside(src, dest) /\ OnlyRefused(a))
                =>
                /\ Len(errors') = 1
                /\ errors'[1].type = VariantOf(fault'.kind)
                /\ \A q \in Below(fs, {src}) :
                    IF IsPrefix(a, q)
                    THEN Reloc(src, dest, q) \notin DOMAIN fs'
                    ELSE /\ Reloc(src, dest, q) \in DOMAIN fs'
                         /\ fs'[Reloc(src, dest, q)].kind = fs[q].kind]_vars
\* the copy of the first child of /a failed, the child after it and the file
\* below that one were copied
C19_Witness ==
    /\ last = "duplicate" /\ working_directory = <<>>
    /\ fault.deny = {<<"copy", Append(DirA, <<"f", "?">>)>>}
    /\ Len(errors) = 1
    /\ Append(Extended(DirA, 1), <<"f", "?">>) \notin DOMAIN fs
    /\ IsFile(fs, Append(Append(Extended(DirA, 1), <<"d">>), <<"y">>))

\* the step makes the call <<op, p>>: the listing of the directory walked
\* into or gone up to, the creation of a new file or directory, or what
\* remove calls for an entry of its range
Made(op, p) ==
    \/ /\ last' = "dir_up" /\ Len(working_directory) > 0
       /\ op = "read_dir" /\ p = Dirname(working_directory)
    \/ /\ last' = "dir_walk" /\ HasSel /\ IsDir(fs, Sel)
       /\ op = "read_dir" /\ p = Sel
    \/ /\ last' = "new_file" /\ op = "create"
       /\ p = new_path(fs, Append(working_directory, NEWFILE))
    \/ /\ last' = "new_directory" /\ op = "mkdir"
       /\ p = new_path(fs, Append(working_directory, NEWDIR))
    \/ /\ last' = "remove" /\ IsSome(selected)
       /\ \E i \in Indices :
            /\ i < Len(entries) /\ p = entries[i + 1]
            /\ \/ IsFile(fs, p) /\ op = "remove_file"
               \/ IsDir(fs, p) /\ op = "read_dir"

\* C20: a filesystem call that is made while a key event is handled and
\* fails puts an error on the queue: after a step in which the environment
\* refused a call the step made, the queue is not empty.
C20_NoFailureDropped ==
    [][(errors = <<>> /\ mode = "Normal"
        /\ \E c \in fault'.deny : Made(c[1], c[2]))
       => errors' # <<>>]_vars

\* the step walks into the selected directory, or goes up to the parent,
\* and the listing of the directory succeeds
WalksInto(dir) ==
    /\ NoCallFails
    /\ \/ NormalStep("dir_walk") /\ HasSel /\ IsDir(fs, Sel) /\ dir = Sel
       \/ /\ NormalStep("dir_up") /\ Len(working_directory) > 0
          /\ dir = Dirname(working_directory)

\* C21: after a walk on a selected directory, and after an up from a
\* directory that has a parent, the working directory is that directory,
\* entries is its listing, the cursor is on index 0 (absent when the listing
\* is empty) and selection_start is absent.
C21_WalkResets ==
    [][\A dir \in DOMAIN fs :
        WalksInto(dir) =>
            /\ ~panicked'
            /\ working_directory' = dir
            /\ entries' = Listing(fs, dir)
            /\ selected' = IF entries' = <<>> THEN None ELSE Some(0)
            /\ selection_start' = None]_vars

\* the step is a walk that has nothing to walk into, or an up at the root
StaysPut ==
    \/ NormalStep("dir_walk") /\ (entries = <<>> \/ (HasSel /\ ~IsDir(fs, Sel)))
    \/ NormalStep("dir_up") /\ Len(working_directory) = 0

\* C22: a walk with no entries or on an entry that is no directory, and an
\* up from a directory without parent, change nothing: working directory,
\* entries, cursor index, selection_start, mode and filesystem stay as they
\* are and no error is queued.
C22_WalkNoOp ==
    [][StaysPut =>
        /\ ~panicked'
        /\ UNCHANGED <<working_directory, entries, selected, selection_start, mode, fs>>
        /\ errors' = <<>>]_vars
\* a walk on the file under the cursor with an anchor set
C22_Witness ==
    /\ last = "dir_walk" /\ working_directory = DirA
    /\ HasSel /\ IsFile(fs, Sel) /\ selection_start = Some(0)
\* an up at the root
C22_WitnessRoot == last = "dir_up" /\ nkeys = 2 /\ working_directory = <<>> /\ entries = <<DirA>>
\* a walk in an empty directory
C22_WitnessEmpty == last = "dir_walk" /\ entries = <<>> /\ nkeys = 5

\* C23: in every state the session reaches, selection_start, when present,
\* is smaller than the number of entries, so the range between anchor and
\* cursor lies inside the listing.
C23_AnchorInsideListing ==
    ~panicked => (IsSome(selection_start) => Unwrap(selection_start) < Len(entries))

DisplayName == IF mode = "Insert" THEN edit_buffer ELSE EntryName(Sel)

\* C25: in every state the session reaches, cursor_offset is at most the
\* number of characters of the name shown for the selected entry.
C25_OffsetInsideName ==
    (~panicked /\ HasSel) => cursor_offset <= Len(DisplayName)

\* an Insert-mode step with no error pending that takes branch b
InsertStep(b) == errors = <<>> /\ mode = "Insert" /\ last' = b
\* str without its character of (0-based) index i; str with ch put at index i
Without(str, i) == SubSeq(str, 1, i) \o SubSeq(str, i + 2, Len(str))
WithAt(str, i, ch) == SubSeq(str, 1, i) \o <<ch>> \o SubSeq(str, i + 1, Len(str))

\* C26: in Insert mode a backspace with cursor_offset = c > 0 removes the
\* character of index c-1 from the edit buffer and sets cursor_offset to
\* c-1, and does nothing when c = 0; a character key puts its character at
\* index c, counted in characters, and sets cursor_offset to c+1.
C26_EditAtCursor ==
    [][/\ InsertStep("backspace") =>
            /\ ~panicked'
            /\ IF cursor_offset = 0
               THEN UNCHANGED <<edit_buffer, cursor_offset>>
               ELSE /\ cursor_offset <= Len(edit_buffer)
                    /\ edit_buffer' = Without(edit_buffer, cursor_offset - 1)
                    /\ cursor_offset' = cursor_offset - 1
       /\ InsertStep("char") =>
            /\ ~panicked'
            /\ cursor_offset <= Len(edit_buffer)
            /\ \E ke \in KeysNow :
                /\ ke.code.t = "Char"
                /\ edit_buffer' = WithAt(edit_buffer, cursor_offset, ke.code.c)
            /\ cursor_offset' = cursor_offset + 1]_vars

\* the anchor and the cursor are inside the listing
RangeInside == IsSome(selected) /\ \A i \in Indices : i < Len(entries)
\* the entries of the range that remove leaves where they were
NotRemoved == {i \in Indices : entries[i + 1] \in DOMAIN fs /\ entries[i + 1] \in DOMAIN fs'}
\* the copies and directory creations of a duplicate that are refused, each
\* for a path that the copy gets to
FailedCopies ==
    {c \in fault'.deny :
        /\ c[2] \in DOMAIN fs
        /\ c[1] = (IF IsFile(fs, c[2]) THEN "copy" ELSE "mkdir")
        /\ \E i \in Indices :
            /\ IsPrefix(entries[i + 1], c[2])
            /\ \A a \in DOMAIN fs :
                (IsPrefix(entries[i + 1], a) /\ IsPrefix(a, c[2]) /\ a # c[2]) =>
                    (~Refused("mkdir", a) /\ ~Refused("read_dir", a))}

\* C27: a remove or duplicate in which several entries fail goes on with
\* the other entries and leaves one error for each failure on the queue;
\* and only the dismissing key press empties the queue.
C27_ErrorsAddUp ==
    [][/\ (NormalStep("remove") /\ RangeInside) =>
            /\ ~panicked'
            /\ \A i \in Indices : RemovedByKind(entries[i + 1])
            /\ Cardinality(NotRemoved) >= 2 => Len(errors') = Cardinality(NotRemoved)
       /\ (NormalStep("duplicate") /\ RangeInside) =>
            /\ ~panicked'
            /\ Len(errors') = Cardinality(FailedCopies)
       /\ (errors # <<>> /\ errors' = <<>>) => last' = "dismiss"]_vars

\* the step pastes the one directory src into itself or into a directory
\* below it, and the environment fails no call
PastesIntoItself(src) ==
    /\ NormalStep("paste") /\ NoCallFails
    /\ clipboard = <<src>> /\ IsDir(fs, src)
    /\ IsPrefix(src, working_directory) /\ IsDir(fs, working_directory)
    /\ Len(working_directory) < MaxDepth
\* the error left by a create_dir or a copy that the length of the path stops
PathTooLong(e) ==
    /\ e.type = "Message"
    /\ \/ e.text = "Couldn't create directory" /\ Len(e.path) = MaxDepth + 1
       \/ e.text = "Couldn't copy file" /\ Len(e.to) = MaxDepth + 1

CloseStep == last' = "close_active_pane"
\* v2 is v with the element at the zero-based index k taken out
TakenOut(v, v2, k) ==
    /\ Len(v2) = Len(v) - 1
    /\ \A n \in 1..Len(v2) : v2[n] = IF n <= k THEN v[n] ELSE v[n + 1]

C30_Close ==
    [][CloseStep =>
        IF Len(panels[panel_focus_i + 1]) > 1
        THEN /\ Len(panels') = Len(panels)
             /\ \A r \in 1..Len(panels) :
                    IF r = panel_focus_i + 1
                    THEN TakenOut(panels[r], panels'[r], panel_focus_j)
                    ELSE panels'[r] = panels[r]
             /\ panel_focus_j' = IF panel_focus_j = 0 THEN 0 ELSE panel_focus_j - 1
        ELSE IF Len(panels) > 1
        THEN /\ TakenOut(panels, panels', panel_focus_i)
             /\ panel_focus_i' = IF panel_focus_i = 0 THEN 0 ELSE panel_focus_i - 1
        ELSE UNCHANGED <<panels, panel_focus_i, panel_focus_j>>]_vars

\* C30 witness: a close with the focus on the first of three panels of a
\* row has removed that panel and left the focus on column 0.
C30_Witness ==
    /\ last = "close_active_pane"
    /\ panels = <<<<Pane(1, DirA), Pane(0, DirA)>>>>
    /\ panel_focus_i = 0
    /\ panel_focus_j = 0

\* what an Insert-mode text edit must leave alone
EditFrame ==
    /\ UNCHANGED <<fs, working_directory, entries, mode, selected, selection_start,
                   clipboard, errors, current_entry_length>>
    /\ ~result'.quit /\ ~result'.should_refresh

\* C32: in Insert mode with no error pending, a key event that is not the
\* commit action changes at most edit_buffer and cursor_offset: the
\* directory, the listing, the cursor, the anchor, the clipboard, the mode
\* and the filesystem stay and quit is not signalled, also for a key bound
\* to a Normal-mode action; an event that is neither the commit nor a press
\* changes nothing at all.
C32_InsertFrame ==
    [][/\ (InsertStep("backspace") \/ InsertStep("char")) => EditFrame
       /\ InsertStep("ignored") => (EditFrame /\ UNCHANGED <<edit_buffer, cursor_offset>>)
      ]_vars

\* C32 witness: the paste key pressed while naming a new file has been typed
\* into the buffer as the character p.
C32_Witness ==
    /\ last = "char" /\ mode = "Insert"
    /\ edit_buffer = <<"p">> /\ cursor_offset = 1
    /\ Append(working_directory, NEWFILE) \in DOMAIN fs
    /\ clipboard = <<>>

\* the step handles a key event and process_key_event returns
Returns == nkeys' = nkeys + 1 /\ ~panicked'
\* the event leaves the panel, the clipboard and the filesystem as they were
NoOp ==
    UNCHANGED <<fs, working_directory, entries, mode, selected, cursor_offset,
                current_entry_length, edit_buffer, selection_start, errors, clipboard>>
\* the branches that only dismiss, move, select, copy to the clipboard or edit text
QuietBranches ==
    {"dismiss", "ignored", "up", "down", "select_up", "select_down", "left", "right",
     "copy", "backspace", "char"}

\* C33: process_key_event returns should_refresh = true for every key event
\* during which the filesystem changed (an entry created, copied, removed or
\* renamed), and should_refresh = false for an error dismissal, a cursor or
\* selection move, a copy to the clipboard, an Insert-mode text edit, a
\* rejected commit and every event that changed nothing.
C33_RefreshReported ==
    [][Returns =>
        /\ fs' # fs => result'.should_refresh
        /\ last' \in QuietBranches => ~result'.should_refresh
        /\ (CommitStep /\ Rejected) => ~result'.should_refresh
        /\ NoOp => ~result'.should_refresh]_vars

\* C33 witness: a remove has deleted the file f? of /a and reported the change.
C33_Witness ==
    /\ last = "remove" /\ result.should_refresh
    /\ working_directory = DirA
    /\ Append(DirA, <<"f", "?">>) \notin DOMAIN fs
    /\ Append(DirA, <<"d">>) \in DOMAIN fs
    /\ errors = <<>>

\* p is a direct child of the directory dir
ChildOf(p, dir) == Len(p) = Len(dir) + 1 /\ SubSeq(p, 1, Len(dir)) = dir

\* C34: after every key event every path in entries is a direct child of
\* working_directory, also when the listing fails during a walk or an up.
C34_EntriesAreChildren ==
    ~panicked => \A i \in 1..Len(entries) : ChildOf(entries[i], working_directory)

\* C35: in every reachable state with mode Insert, cursor_offset is at most
\* the number of characters of edit_buffer (so that a backspace with
\* cursor_offset > 0 finds a character to remove), also when Insert mode is
\* entered in a listing that became non-empty while no entry was selected.
C35_OffsetInsideBuffer ==
    (~panicked /\ mode = "Insert") => cursor_offset <= Len(edit_buffer)

\* the entry at p is after the step what it was before it
Survives(p) ==
    /\ p \in DOMAIN fs'
    /\ fs'[p].kind = fs[p].kind /\ fs'[p].data = fs[p].data
\* the entry at p is, after a commit, what it was, under the new name of the
\* renamed entry
Renamed(p) ==
    /\ last' = "commit" /\ HasSel /\ IsPrefix(Sel, p)
    /\ Reloc(Sel, Target, p) \in DOMAIN fs'
    /\ Reloc(Sel, Target, p) \notin DOMAIN fs
    /\ fs'[Reloc(Sel, Target, p)].kind = fs[p].kind
    /\ fs'[Reloc(Sel, Target, p)].data = fs[p].data

C37_NormalHasEmptyBuffer ==
    mode = "Normal" => edit_buffer = <<>>

\* C37 witness: a commit whose rename the environment refused has reported
\* the failure and returned to Normal mode with the buffer emptied.
C37_Witness ==
    /\ last = "commit" /\ mode = "Normal" /\ edit_buffer = <<>>
    /\ fault.deny # {} /\ Len(errors) = 1

\* C38: a paste skips a clipboard path that is no longer a file or a
\* directory without a word: nothing is created for it (at most one new
\* entry per clipboard path that still exists), no error is pushed when no
\* call fails, and when none of the clipboard paths exists any more the
\* filesystem, the error queue and the listing stay as they are and
\* content-changed is not reported.
C38_PasteSkipsMissing ==
    [][(NormalStep("paste") /\ ~panicked'
        /\ \E k \in 1..Len(clipboard) : clipboard[k] \notin DOMAIN fs)
       =>
        /\ Cardinality(NewIn(fs, fs', working_directory)) <= Cardinality(Live)
        /\ (NoCallFails /\ \A k \in Live : ~IsPrefix(clipboard[k], working_directory))
              => errors' = errors
        /\ Live = {} =>
              /\ UNCHANGED <<fs, errors, entries>>
              /\ ~result'.should_refresh]_vars

\* C38 witness: f? and d were copied and f? removed; the paste has made a
\* copy of d only and reported nothing about f?.
C38_Witness ==
    /\ last = "paste" /\ working_directory = DirA
    /\ clipboard = <<Append(DirA, <<"f", "?">>), Append(DirA, <<"d">>)>>
    /\ Append(DirA, <<"f", "?">>) \notin DOMAIN fs
    /\ Append(DirA, <<"d", ".", "1">>) \in DOMAIN fs
    /\ Append(DirA, <<"f", "?", ".", "1">>) \notin DOMAIN fs
    /\ errors = <<>> /\ result.should_refresh

\* C38 witness, nothing left: y was copied and removed in d; the paste has
\* changed nothing.
C38_WitnessAllGone ==
    /\ last = "paste" /\ working_directory = Append(DirA, <<"d">>)
    /\ clipboard = <<Append(Append(DirA, <<"d">>), <<"y">>)>>
    /\ entries = <<>> /\ errors = <<>> /\ ~result.should_refresh

\* the branch of Panel::process_key_event the key event ke takes in this state
PanelLabel(ke) ==
    IF errors # <<>> THEN (IF ke.kind = "Press" THEN "dismiss" ELSE "ignored")
    ELSE IF mode = "Normal" THEN NormalBranch(ke)
    ELSE IF InsertBranch(ke) = "none" THEN "ignored" ELSE InsertBranch(ke)

\* the outcome `out` of the loop of main.rs, drawn, is the state the panel
\* is in after the step
SameAsEditor(out) ==
    /\ out.fs = fs'
    /\ out.panic = panicked'
    /\ ~out.panic =>
        LET e == Render(out.s) IN
        /\ e.mode = mode' /\ e.working_directory = working_directory'
        /\ e.entries = entries' /\ e.selected = selected'
        /\ e.cursor_offset = cursor_offset' /\ e.selection_start = selection_start'
        /\ e.edit_buffer = edit_buffer' /\ e.errors = errors'
        /\ e.current_entry_length = current_entry_length'
        /\ out.clipboard = clipboard'
        /\ out.quit = result'.quit
\* the loop of main.rs, given the key ke and the environment of the step
\* (the calls that failed and some place for a created name), does the same
EditorAgrees(ke) ==
    \E slot \in Slots(fs, working_directory) \cup {Len(entries)} :
        SameAsEditor(run_key(Self, fs, clipboard, ke, fault', slot))

PrefixOf(v) == IF IsSome(split_once(v)) THEN split_once(v)[1].mod_str ELSE <<>>
\* the key part of the string read
KeyPartOf(v) == IF IsSome(split_once(v)) THEN split_once(v)[1].code ELSE v
\* C40: reading a binding string sets Control exactly when the prefix holds
\* c or C, Shift exactly when it holds s or S and Alt exactly when it holds
\* a or A; a string whose key part names no key code leaves the binding as
\* it was.
C40_ModifierPrefix ==
    [][(last' = "from_toml" /\ toml'.kind = "String") =>
        LET v == toml'.str
            has(lower, upper) == contains(PrefixOf(v), lower) \/ contains(PrefixOf(v), upper)
        IN IF IsSome(key_code_from_str(KeyPartOf(v)))
           THEN /\ "CONTROL" \in key_event'.modifiers <=> has("c", "C")
                /\ "SHIFT" \in key_event'.modifiers <=> has("s", "S")
                /\ "ALT" \in key_event'.modifiers <=> has("a", "A")
           ELSE key_event' = key_event]_vars


\* the coordinates, one-based, of the panels other than the focused one
OtherPanels ==
    UNION {{<<r, c>> : c \in DOMAIN panels[r]} : r \in DOMAIN panels}
    \ {<<panel_focus_i + 1, panel_focus_j + 1>>}
\* the panel at rc was read again and its cursor bounds refreshed in the
\* step: it took part in the refresh, its entries are the listing of its
\* directory wherever that can be listed, and the cursor is inside the name
\* its selection points at
Reread(rc) ==
    LET before == panels[rc[1]][rc[2]].panel
        cell == panels'[rc[1]][rc[2]]
        dir == FsReadDir(fs', Forced(fault', "read_dir", before.working_directory),
                         before.working_directory)
    IN  /\ cell.refreshed
        /\ cell.panel.working_directory = before.working_directory
        /\ dir.ok => cell.panel.entries = dir.list
        /\ (IsSome(before.selected) /\ Unwrap(before.selected) < Len(cell.panel.entries)) =>
               LET name == EntryName(cell.panel.entries[Unwrap(before.selected) + 1]) IN
               /\ cell.panel.current_entry_length = Len(name)
               /\ cell.panel.cursor_offset <= Len(name)
\* C31: when the focused panel reports content-changed for a key event,
\* every other panel of the window has its listing read again and its cursor
\* bounds refreshed in that step, before the next key event, whatever its
\* working directory.
C31_OthersRefreshed ==
    [][(nkeys' = nkeys + 1 /\ ~panicked' /\ result'.should_refresh) =>
        \A rc \in OtherPanels : Reread(rc)]_vars
\* a file was created in /a: the panel on /a lists it and the panel on /a/d,
\* which the new path does not concern, was refreshed too
C31_Witness ==
    /\ last = "new_file" /\ result.should_refresh /\ ~panicked
    /\ Len(panels) = 2 /\ Len(panels[2]) = 2
    /\ panels[2][2].refreshed /\ panels[1][2].refreshed
    /\ panels[2][1].refreshed
    /\ panels[2][1].panel.entries = entries
    /\ Len(entries) = 3

====
